---------------------------- MODULE Spec2Model ----------------------------
(***************************************************************************)
(* Model of the upload path of the file manager service                    *)
(* (lambda-functions/src/upload.ts): the hand-written multipart/form-data  *)
(* decoder, the metadata normalizer and the upload handler.                *)
(*                                                                         *)
(* A Buffer or a string is a sequence of one-character strings.  Offsets   *)
(* are 0-based as in the source, and -1 is indexOf's "not found".          *)
(***************************************************************************)
EXTENDS Integers, Sequences, FiniteSets, TLC

(***************************************************************************)
(* Bytes, strings and the JavaScript library calls the code makes.         *)
(***************************************************************************)

\* JavaScript's white space (\s of a RegExp, String.prototype.trim), as far
\* as the alphabets of this model go.
WhiteSpace == {" ", "\t", "\n", "\r", "\f"}

EOL == {"\r", "\n"}

Digits == {"0", "1", "2", "3", "4", "5", "6", "7", "8", "9"}

UpperToLower ==
  [c \in {"A","B","C","D","E","F","G","H","I","J","K","L","M","N","O","P",
          "Q","R","S","T","U","V","W","X","Y","Z"} |->
     CASE c = "A" -> "a" [] c = "B" -> "b" [] c = "C" -> "c" [] c = "D" -> "d"
       [] c = "E" -> "e" [] c = "F" -> "f" [] c = "G" -> "g" [] c = "H" -> "h"
       [] c = "I" -> "i" [] c = "J" -> "j" [] c = "K" -> "k" [] c = "L" -> "l"
       [] c = "M" -> "m" [] c = "N" -> "n" [] c = "O" -> "o" [] c = "P" -> "p"
       [] c = "Q" -> "q" [] c = "R" -> "r" [] c = "S" -> "s" [] c = "T" -> "t"
       [] c = "U" -> "u" [] c = "V" -> "v" [] c = "W" -> "w" [] c = "X" -> "x"
       [] c = "Y" -> "y" [] c = "Z" -> "z"]

LowerLetters == {UpperToLower[c] : c \in DOMAIN UpperToLower}

\* One character of String.prototype.toLowerCase, and of a RegExp's i flag.
Lower(c) == IF c \in DOMAIN UpperToLower THEN UpperToLower[c] ELSE c

toLowerCase(s) == [k \in 1..Len(s) |-> Lower(s[k])]

\* An optional value: the source's `undefined` and `null`.
Undefined == [def |-> FALSE, val |-> <<>>]

Some(v) == [def |-> TRUE, val |-> v]

\* a || b for an optional string a: an empty string is falsy.
OrElse(a, b) == IF a.def /\ a.val # <<>> THEN a.val ELSE b

Min(S) == CHOOSE x \in S : \A y \in S : x <= y

Max(S) == CHOOSE x \in S : \A y \in S : x >= y

\* Buffer.slice(a, b) and String.slice(a, b), 0 <= a.
Slice(s, a, b) == IF b <= a THEN <<>> ELSE SubSeq(s, a + 1, IF b > Len(s) THEN Len(s) ELSE b)

\* Buffer.slice(a).
SliceFrom(s, a) == Slice(s, a, Len(s))

\* A slice that keeps the line break before the next boundary line.
DropNothing(s) == s

\* Buffer.slice(0, -2).
DropLast2(s) == Slice(s, 0, Len(s) - 2)

\* Whether lit occurs in s at offset i.
IsAt(s, i, lit) ==
  /\ i >= 0
  /\ i + Len(lit) <= Len(s)
  /\ \A k \in 1..Len(lit) : s[i + k] = lit[k]

\* The same under a RegExp's i flag.
IsAtCI(s, i, lit) ==
  /\ i >= 0
  /\ i + Len(lit) <= Len(s)
  /\ \A k \in 1..Len(lit) : Lower(s[i + k]) = Lower(lit[k])

\* Buffer.indexOf(lit, from) and String.indexOf: the first offset >= from at
\* which lit occurs, or -1.
IndexOf(s, lit, from) ==
  LET hits == {i \in from..(Len(s) - Len(lit)) : IsAt(s, i, lit)}
  IN  IF hits = {} THEN -1 ELSE Min(hits)

\* String.includes.
Includes(s, lit) == IndexOf(s, lit, 0) # -1

\* The end of the longest run of characters of `set` that starts at offset i
\* (a greedy quantifier over a character class).
RECURSIVE RunIn(_, _, _)
RunIn(s, i, set) ==
  IF i < Len(s) /\ s[i + 1] \in set THEN RunIn(s, i + 1, set) ELSE i

\* The same for a negated class: the run stops at a character of `set`.
RECURSIVE RunNotIn(_, _, _)
RunNotIn(s, i, set) ==
  IF i < Len(s) /\ s[i + 1] \notin set THEN RunNotIn(s, i + 1, set) ELSE i

\* String.prototype.trim.
trim(s) ==
  LET keep == {k \in 1..Len(s) : s[k] \notin WhiteSpace}
  IN  IF keep = {} THEN <<>> ELSE SubSeq(s, Min(keep), Max(keep))

\* String.replace(/"/g, '').
StripQuotes(s) == SelectSeq(s, LAMBDA c : c # "\"")

(***************************************************************************)
(* parseMultipartPart: the three Content-Disposition patterns and the      *)
(* Content-Type pattern, each a leftmost match as RegExp.match finds it.   *)
(***************************************************************************)

LitContentDisposition == <<"C","o","n","t","e","n","t","-","D","i","s","p","o","s","i","t","i","o","n",":">>

LitFormData == <<"f","o","r","m","-","d","a","t","a",";">>

LitName == <<"n","a","m","e","=">>

LitFilename == <<"f","i","l","e","n","a","m","e","=">>

LitContentType == <<"C","o","n","t","e","n","t","-","T","y","p","e",":">>

CRLF == <<"\r", "\n">>

CRLFCRLF == <<"\r", "\n", "\r", "\n">>

\* The characters that end an unquoted value: [^;,\s]+ stops at them.
BareStop == {";", ","} \cup WhiteSpace

NoMatch == [ok |-> FALSE, g1 |-> Undefined, g2 |-> Undefined]

NoValue == [ok |-> FALSE, val |-> <<>>, end |-> -1]

\* The closing quote of "([^"]+)" whose opening quote is at p, the run of
\* characters that are not quotes ending at offset e.
QuotedTo(s, p, e) ==
  IF e > p + 1 /\ e < Len(s)
    THEN [ok |-> TRUE, val |-> Slice(s, p + 1, e), end |-> e + 1]
    ELSE NoValue

\* "([^"]+)" at offset p: the opening quote, one character or more, the
\* closing quote.  [ok, val, end]: end is the offset after the closing quote.
QuotedAt(s, p) ==
  IF IsAt(s, p, <<"\"">>) THEN QuotedTo(s, p, RunNotIn(s, p + 1, {"\""})) ELSE NoValue

BareTo(s, p, e) ==
  IF e > p THEN [ok |-> TRUE, val |-> Slice(s, p, e), end |-> e] ELSE NoValue

\* ([^;,\s]+) at offset p.
BareAt(s, p) == IF p >= 0 THEN BareTo(s, p, RunNotIn(s, p, BareStop)) ELSE NoValue

\* name= at offset p: the offset after it, or -1.
NameKeyAt(s, p) == IF IsAtCI(s, p, LitName) THEN p + Len(LitName) ELSE -1

\* form-data;\s*name= at offset p.
FormDataAt(s, p) ==
  IF IsAtCI(s, p, LitFormData)
    THEN NameKeyAt(s, RunIn(s, p + Len(LitFormData), WhiteSpace))
    ELSE -1

\* Content-Disposition:\s*form-data;\s*name= at offset i: the offset after
\* `name=`, or -1.
DispositionPrefixAt(s, i) ==
  IF IsAtCI(s, i, LitContentDisposition)
    THEN FormDataAt(s, RunIn(s, i + Len(LitContentDisposition), WhiteSpace))
    ELSE -1

\* filename=VALUE at offset q, VALUE quoted or bare.
FilenameValueAt(s, q, quoted) ==
  IF ~IsAtCI(s, q, LitFilename) THEN NoValue
  ELSE IF quoted THEN QuotedAt(s, q + Len(LitFilename))
  ELSE BareAt(s, q + Len(LitFilename))

\* (?:;\s*filename=VALUE)? at offset p: the optional group takes part in
\* the match only when all of it matches.
FilenameGroupAt(s, p, quoted) ==
  IF IsAt(s, p, <<";">>)
    THEN FilenameValueAt(s, RunIn(s, p + 1, WhiteSpace), quoted)
    ELSE NoValue

OptionalGroup(v) == IF v.ok THEN Some(v.val) ELSE Undefined

\* The two groups of patterns 1 and 2 once the name value n is matched.
NameThenFilename(s, n, quoted) ==
  IF n.ok
    THEN [ok |-> TRUE, g1 |-> Some(n.val),
          g2 |-> OptionalGroup(FilenameGroupAt(s, n.end, quoted))]
    ELSE NoMatch

\* Pattern 1 (upload.ts:261) tried at offset i.
Pattern1At(s, i) == NameThenFilename(s, QuotedAt(s, DispositionPrefixAt(s, i)), TRUE)

\* Pattern 2 (upload.ts:268) tried at offset i.
Pattern2At(s, i) == NameThenFilename(s, BareAt(s, DispositionPrefixAt(s, i)), FALSE)

\* (?:"([^"]+)"|([^;,\s]+)) with the quoted alternative q tried first and
\* the bare alternative b second.
QuotedOrBare(q, b) ==
  IF q.ok THEN [ok |-> TRUE, g1 |-> Some(q.val), g2 |-> Undefined]
  ELSE IF b.ok THEN [ok |-> TRUE, g1 |-> Undefined, g2 |-> Some(b.val)]
  ELSE NoMatch

\* KEY(?:"([^"]+)"|([^;,\s]+)) tried at offset i (upload.ts:274-275).
QuotedOrBareAt(s, i, key) ==
  IF IsAtCI(s, i, key)
    THEN QuotedOrBare(QuotedAt(s, i + Len(key)), BareAt(s, i + Len(key)))
    ELSE NoMatch

\* String.match without the g flag: the attempt at the leftmost offset at
\* which the pattern matches.
MatchPattern1(s) ==
  LET hits == {i \in 0..(Len(s) - 1) : Pattern1At(s, i).ok}
  IN  IF hits = {} THEN NoMatch ELSE Pattern1At(s, Min(hits))

MatchPattern2(s) ==
  LET hits == {i \in 0..(Len(s) - 1) : Pattern2At(s, i).ok}
  IN  IF hits = {} THEN NoMatch ELSE Pattern2At(s, Min(hits))

MatchQuotedOrBare(s, key) ==
  LET hits == {i \in 0..(Len(s) - 1) : QuotedOrBareAt(s, i, key).ok}
  IN  IF hits = {} THEN NoMatch ELSE QuotedOrBareAt(s, Min(hits), key)

\* The value of /Content-Type:\s*([^\r\n]+)/i, \s* having matched up to
\* offset g from offset p: \s* is greedy and gives characters back until
\* one that is not a line break can start the value.
ContentTypeValue(s, ks) ==
  IF ks = {} THEN NoMatch
  ELSE [ok |-> TRUE,
        g1 |-> Some(Slice(s, Max(ks), RunNotIn(s, Max(ks), EOL))),
        g2 |-> Undefined]

ContentTypeFrom(s, p, g) ==
  ContentTypeValue(s, {k \in p..g : k < Len(s) /\ s[k + 1] \notin EOL})

\* /Content-Type:\s*([^\r\n]+)/i tried at offset i (upload.ts:292).
ContentTypeAt(s, i) ==
  IF IsAtCI(s, i, LitContentType)
    THEN ContentTypeFrom(s, i + Len(LitContentType),
                         RunIn(s, i + Len(LitContentType), WhiteSpace))
    ELSE NoMatch

MatchContentType(s) ==
  LET hits == {i \in 0..(Len(s) - 1) : ContentTypeAt(s, i).ok}
  IN  IF hits = {} THEN NoMatch ELSE ContentTypeAt(s, Min(hits))

\* The name and the filename from the matches of pattern 1 (m1), pattern 2
\* (m2) and the two patterns of the mixed format (upload.ts:263-284).
DispositionOf(m1, m2, nameMatch, filenameMatch) ==
  IF m1.ok THEN [name |-> m1.g1, filename |-> m1.g2]
  ELSE IF m2.ok
    THEN [name |-> Some(StripQuotes(m2.g1.val)),
          filename |-> IF m2.g2.def /\ m2.g2.val # <<>>
                         THEN Some(StripQuotes(m2.g2.val))
                         ELSE Undefined]
  ELSE IF nameMatch.ok
    THEN [name |-> Some(OrElse(nameMatch.g1, nameMatch.g2.val)),
          filename |-> IF filenameMatch.ok
                         THEN Some(OrElse(filenameMatch.g1, filenameMatch.g2.val))
                         ELSE Undefined]
  ELSE [name |-> Undefined, filename |-> Undefined]

\* The name and the filename of a header section (upload.ts:256-284).
Disposition(headerSection) ==
  DispositionOf(MatchPattern1(headerSection), MatchPattern2(headerSection),
                MatchQuotedOrBare(headerSection, LitName),
                MatchQuotedOrBare(headerSection, LitFilename))

NullPart == [ok |-> FALSE, name |-> <<>>, filename |-> Undefined,
             contentType |-> Undefined, data |-> <<>>]

\* The part returned for disposition d, Content-Type match m and payload
\* data (upload.ts:286-302).
PartOf(d, m, data) ==
  IF ~d.name.def \/ d.name.val = <<>> THEN NullPart
  ELSE [ok |-> TRUE,
        name |-> trim(d.name.val),
        filename |-> IF d.filename.def /\ d.filename.val # <<>>
                       THEN Some(trim(d.filename.val))
                       ELSE Undefined,
        contentType |-> IF m.ok THEN Some(trim(m.g1.val)) ELSE Undefined,
        data |-> data]

\* The section split at headerEndIndex (upload.ts:248-252).
SplitAt(partData, headerEndIndex) ==
  IF headerEndIndex = -1 THEN NullPart
  ELSE PartOf(Disposition(Slice(partData, 0, headerEndIndex)),
              MatchContentType(Slice(partData, 0, headerEndIndex)),
              DropLast2(SliceFrom(partData, headerEndIndex + 4)))

\* parseMultipartPart (upload.ts:242-303): null, or the part of one section.
parseMultipartPart(partData) == SplitAt(partData, IndexOf(partData, CRLFCRLF, 0))

\* A MultipartPart as the parsers hand it on (the `ok` flag dropped).
AsPart(p) == [name |-> p.name, filename |-> p.filename,
              contentType |-> p.contentType, data |-> p.data]

(***************************************************************************)
(* parseMultipartBody (upload.ts:209-237): the scan for `--boundary`.      *)
(***************************************************************************)

boundaryBuffer(b) == <<"-", "-">> \o b

endBoundaryBuffer(b) == <<"-", "-">> \o b \o <<"-", "-">>

\* The locals of the loop when it is first tested (upload.ts:210-215).
ScanInit(buf, b) ==
  [start |-> 0, end |-> IndexOf(buf, boundaryBuffer(b), 0), parts |-> <<>>,
   brk |-> FALSE]

\* A push without the test for null.
PushAnyPart(ps, part) == Append(ps, AsPart(part))

\* parts.push(part) unless part is null (upload.ts:221-223).
PushPart(ps, part) == IF part.ok THEN Append(ps, AsPart(part)) ELSE ps

\* The parts after the `if (start > 0)` block of one iteration
\* (upload.ts:218-224).
ScanParts(buf, st) ==
  IF st.start > 0
    THEN PushPart(st.parts, parseMultipartPart(Slice(buf, st.start, st.end)))
    ELSE st.parts

\* The test for the end boundary (upload.ts:229), made at the new start.
AtEndBoundary(buf, b, newStart) ==
  IndexOf(buf, endBoundaryBuffer(b), newStart) = newStart

\* The rest of an iteration once parts and start are assigned
\* (upload.ts:226-233); brk is set when the iteration leaves by `break`.
ScanNext(buf, b, oldEnd, newStart, newParts) ==
  IF AtEndBoundary(buf, b, newStart)
    THEN [start |-> newStart, end |-> oldEnd, parts |-> newParts, brk |-> TRUE]
    ELSE [start |-> newStart, end |-> IndexOf(buf, boundaryBuffer(b), newStart),
          parts |-> newParts, brk |-> FALSE]

\* An iteration that sets start to the place of the delimiter found.
ScanStepNoAdvance(buf, b, st) ==
  ScanNext(buf, b, st.end, st.end, ScanParts(buf, st))

\* One iteration of the while loop (upload.ts:217-234), taken when
\* st.end # -1.
ScanStep(buf, b, st) ==
  ScanNext(buf, b, st.end, st.end + Len(boundaryBuffer(b)), ScanParts(buf, st))

RECURSIVE ScanRun(_, _, _)
ScanRun(buf, b, st) ==
  IF st.end = -1 \/ st.brk THEN st.parts ELSE ScanRun(buf, b, ScanStep(buf, b, st))

\* parseMultipartBody as a function of its arguments.
parseMultipartBody(buf, b) == ScanRun(buf, b, ScanInit(buf, b))

(***************************************************************************)
(* JavaScript objects used as maps (metadata, cleanedMetadata): a sequence *)
(* of [key, value] entries in the order Object.entries gives them.         *)
(***************************************************************************)

DigitValue ==
  [c \in Digits |->
     CASE c = "0" -> 0 [] c = "1" -> 1 [] c = "2" -> 2 [] c = "3" -> 3
       [] c = "4" -> 4 [] c = "5" -> 5 [] c = "6" -> 6 [] c = "7" -> 7
       [] c = "8" -> 8 [] c = "9" -> 9]

\* The number a sequence of digits denotes.
RECURSIVE DigitsValue(_)
DigitsValue(ds) ==
  IF ds = <<>> THEN 0
  ELSE 10 * DigitsValue(SubSeq(ds, 1, Len(ds) - 1)) + DigitValue[ds[Len(ds)]]

\* Whether the digit string a, without leading zeros, denotes less than b.
DigitsLess(a, b) ==
  \/ Len(a) < Len(b)
  \/ /\ Len(a) = Len(b)
     /\ \E j \in 1..Len(a) :
          /\ DigitValue[a[j]] < DigitValue[b[j]]
          /\ \A h \in 1..(j - 1) : a[h] = b[h]

\* 2^32 - 1, which is no array index.
LitMaxUint32 == <<"4","2","9","4","9","6","7","2","9","5">>

\* An array index: a canonical numeric string below 2^32 - 1.  An object
\* lists such keys first, in ascending order, whenever they were added.
IsArrayIndex(k) ==
  /\ k # <<>>
  /\ \A j \in 1..Len(k) : k[j] \in Digits
  /\ (k[1] = "0" => Len(k) = 1)
  /\ DigitsLess(k, LitMaxUint32)

LitProto == <<"_","_","p","r","o","t","o","_","_">>

HasKey(obj, k) == \E j \in 1..Len(obj) : obj[j].key = k

KeyIndex(obj, k) == CHOOSE j \in 1..Len(obj) : obj[j].key = k

\* obj[k], for a key the object has.
ObjGet(obj, k) == obj[KeyIndex(obj, k)].value

\* Object.keys(obj).
ObjectKeys(obj) == [j \in 1..Len(obj) |-> obj[j].key]

InsertAt(s, j, e) == SubSeq(s, 1, j - 1) \o <<e>> \o SubSeq(s, j, Len(s))

\* Whether a new key k is listed before the entry with key k2.
ListedBefore(k, k2) ==
  IsArrayIndex(k) /\ (IsArrayIndex(k2) => DigitsLess(k, k2))

\* The place of a new key k among the entries of obj.
PlaceOf(obj, k) ==
  Min({j \in 1..Len(obj) : ListedBefore(k, obj[j].key)} \cup {Len(obj) + 1})

\* obj[k] = v on a plain object: a key the object has keeps its place, a
\* new key is listed last unless it is an array index, and an assignment of
\* a primitive to __proto__ is ignored.
ObjSet(obj, k, v) ==
  IF k = LitProto THEN obj
  ELSE IF HasKey(obj, k) THEN [obj EXCEPT ![KeyIndex(obj, k)].value = v]
  ELSE InsertAt(obj, PlaceOf(obj, k), [key |-> k, value |-> v])

(***************************************************************************)
(* Metadata values: a string, a number or a boolean.  A number m / 10^e is *)
(* kept in lowest terms of ten, as equal doubles are equal.                *)
(***************************************************************************)

StringValue(s) == [type |-> "string", str |-> s, num |-> [m |-> 0, e |-> 0], bool |-> FALSE]

NumberValue(n) == [type |-> "number", str |-> <<>>, num |-> n, bool |-> FALSE]

BooleanValue(b) == [type |-> "boolean", str |-> <<>>, num |-> [m |-> 0, e |-> 0], bool |-> b]

RECURSIVE Decimal(_, _)
Decimal(m, e) ==
  IF e > 0 /\ m % 10 = 0 THEN Decimal(m \div 10, e - 1) ELSE [m |-> m, e |-> e]

\* /^\d+(\.\d+)?$/ on a value whose leading digits end at offset d.
NumberLikeFrom(value, d) ==
  /\ d > 0
  /\ \/ d = Len(value)
     \/ /\ IsAt(value, d, <<".">>)
        /\ Len(value) > d + 1
        /\ RunIn(value, d + 1, Digits) = Len(value)

\* /^\d+(\.\d+)?$/.test(value) (upload.ts:191).
NumberLike(value) == NumberLikeFrom(value, RunIn(value, 0, Digits))

\* parseFloat of a value that passes the test, its leading digits ending at
\* offset d.
ParseFloatFrom(value, d) ==
  IF d = Len(value) THEN Decimal(DigitsValue(value), 0)
  ELSE Decimal(DigitsValue(Slice(value, 0, d) \o SliceFrom(value, d + 1)),
               Len(value) - d - 1)

parseFloat(value) == ParseFloatFrom(value, RunIn(value, 0, Digits))

\* Number.isFinite: parseFloat gives Infinity from some 309 digits on, far
\* beyond the numbers of this model, which are all finite.
isFinite(n) == n.m >= 0

LitTrue == <<"t","r","u","e">>

LitFalse == <<"f","a","l","s","e">>

\* A typing that knows the booleans in lower case only.
InferValueExactCase(value) ==
  IF NumberLike(value) THEN NumberValue(parseFloat(value))
  ELSE IF value = LitTrue THEN BooleanValue(TRUE)
  ELSE IF value = LitFalse THEN BooleanValue(FALSE)
  ELSE StringValue(value)

\* The typed value of a trimmed payload (upload.ts:190-199).
InferValue(value) ==
  IF NumberLike(value) THEN NumberValue(parseFloat(value))
  ELSE IF toLowerCase(value) = LitTrue THEN BooleanValue(TRUE)
  ELSE IF toLowerCase(value) = LitFalse THEN BooleanValue(FALSE)
  ELSE StringValue(value)

(***************************************************************************)
(* parseMultipartData: the loop over the parts (upload.ts:173-203).        *)
(***************************************************************************)

LitFile == <<"f","i","l","e">>

UnnamedFile == <<"u","n","n","a","m","e","d","_","f","i","l","e">>

OctetStream == <<"a","p","p","l","i","c","a","t","i","o","n","/","o","c","t","e","t","-","s","t","r","e","a","m">>

\* let fileData = null.
NoFileData == [present |-> FALSE, filename |-> <<>>, contentType |-> <<>>, content |-> <<>>]

\* The fileData of a part named `file` (upload.ts:180-184).
FileDataOf(part) ==
  [present |-> TRUE,
   filename |-> OrElse(part.filename, UnnamedFile),
   contentType |-> OrElse(part.contentType, OctetStream),
   content |-> part.data]

\* The payload as the loop reads it: toString('utf8').trim().
PayloadText(part) == trim(part.data)

\* A loop that keeps the first part named file.
PartStepFirstFile(st, part) ==
  IF part.name = LitFile
    THEN (IF st.fileData.present THEN st
          ELSE [fileData |-> FileDataOf(part), metadata |-> st.metadata])
  ELSE IF part.name # <<>>
    THEN [fileData |-> st.fileData,
          metadata |-> ObjSet(st.metadata, part.name, InferValue(PayloadText(part)))]
  ELSE st

\* One iteration of the for loop on st = [fileData, metadata]
\* (upload.ts:176-201).  A Buffer is truthy even when it is empty, so
\* `part.name && part.data` only asks for a non-empty name.
PartStep(st, part) ==
  IF part.name = LitFile
    THEN [fileData |-> FileDataOf(part), metadata |-> st.metadata]
  ELSE IF part.name # <<>>
    THEN [fileData |-> st.fileData,
          metadata |-> ObjSet(st.metadata, part.name, InferValue(PayloadText(part)))]
  ELSE st

\* The loop over the parts: loop.i is the place of the next part and
\* loop.st what the parts before it have given.
RECURSIVE PartsRun(_, _)
PartsRun(loop, ps) ==
  IF loop.i > Len(ps) THEN loop.st
  ELSE PartsRun([i |-> loop.i + 1, st |-> PartStep(loop.st, ps[loop.i])], ps)

\* The { fileData, metadata } that parseMultipartData returns for parts ps.
PartitionParts(ps) ==
  PartsRun([i |-> 1, st |-> [fileData |-> NoFileData, metadata |-> <<>>]], ps)

(***************************************************************************)
(* validateMetadata (upload.ts:308-363).                                   *)
(***************************************************************************)

\* The most metadata fields a request may carry (upload.ts:354).
MaxMetadataFields == 50

Alphanumeric == LowerLetters \cup DOMAIN UpperToLower \cup Digits \cup {"_"}

\* A key kept as the client wrote it.
KeepKey(key) == key

\* key.replace(/[^a-zA-Z0-9_]/g, '_').toLowerCase() (upload.ts:330).
SanitizeKey(key) ==
  [j \in 1..Len(key) |-> IF key[j] \in Alphanumeric THEN Lower(key[j]) ELSE "_"]

InvalidKeyError(key) == [msg |-> "Invalid key - keys must be non-empty strings", key |-> key]

EmptyValueError(key) == [msg |-> "Empty string value for key", key |-> key]

InvalidNumberError(key) == [msg |-> "Invalid number value for key - must be a finite number", key |-> key]

TooManyFieldsError == [msg |-> "Too many metadata fields - maximum 50 allowed", key |-> <<>>]

AddError(st, e) == [errors |-> Append(st.errors, e), cleanedMetadata |-> st.cleanedMetadata]

Keep(st, k, v) == [errors |-> st.errors, cleanedMetadata |-> ObjSet(st.cleanedMetadata, k, v)]

\* The value check of one entry, its key sanitized to k (upload.ts:333-350).
CheckValue(st, key, k, value) ==
  IF value.type = "string"
    THEN IF trim(value.str) = <<>>
           THEN AddError(st, EmptyValueError(key))
           ELSE Keep(st, k, StringValue(trim(value.str)))
  ELSE IF value.type = "number"
    THEN IF ~isFinite(value.num)
           THEN AddError(st, InvalidNumberError(key))
           ELSE Keep(st, k, value)
  ELSE Keep(st, k, value)

\* One iteration of the loop over Object.entries(metadata) on
\* st = [errors, cleanedMetadata] (upload.ts:322-351).
EntryStep(st, entry) ==
  IF trim(entry.key) = <<>>
    THEN AddError(st, InvalidKeyError(entry.key))
    ELSE CheckValue(st, entry.key, SanitizeKey(entry.key), entry.value)

\* A count check that already refuses the fiftieth field.
TooManyFieldsAtCap(metadata) == Len(ObjectKeys(metadata)) >= MaxMetadataFields

\* A count of the keys that the entries have after sanitization.
TooManySanitized(metadata) ==
  Cardinality({SanitizeKey(metadata[j].key) : j \in 1..Len(metadata)}) > MaxMetadataFields

\* Object.keys(metadata).length > 50 (upload.ts:354).
TooManyFields(metadata) == Len(ObjectKeys(metadata)) > MaxMetadataFields

\* The check for too many fields, after the loop (upload.ts:353-356).
CountStep(st, metadata) ==
  IF TooManyFields(metadata) THEN AddError(st, TooManyFieldsError) ELSE st

\* The loop over the entries: loop.j is the place of the next entry and
\* loop.st what the entries before it have given.
RECURSIVE EntriesRun(_, _)
EntriesRun(loop, metadata) ==
  IF loop.j > Len(metadata) THEN CountStep(loop.st, metadata)
  ELSE EntriesRun([j |-> loop.j + 1, st |-> EntryStep(loop.st, metadata[loop.j])],
                  metadata)

\* validateMetadata(metadata): [errors, cleanedMetadata]; isValid is
\* errors.length === 0.
validateMetadata(metadata) ==
  EntriesRun([j |-> 1, st |-> [errors |-> <<>>, cleanedMetadata |-> <<>>]], metadata)

(***************************************************************************)
(* Buffers of any length.  A buffer of the model is a sequence of bytes,   *)
(* one element a byte, except for the element Blob, which stands for       *)
(* BlobBytes bytes of payload that hold no delimiter, line break or white  *)
(* space: offsets of the model count elements, and only Buffer.length      *)
(* counts bytes.                                                           *)
(***************************************************************************)

\* FILE_SIZE_LIMITS.MAX_FILE_SIZE (types: MAX_FILE_SIZE: 10 * 1024 * 1024).
MAX_FILE_SIZE == 10 * 1024 * 1024

Blob == "blob"

BlobBytes == MAX_FILE_SIZE - 1

\* Buffer.length.
ByteLength(buf) ==
  Len(buf) + (BlobBytes - 1) * Cardinality({k \in 1..Len(buf) : buf[k] = Blob})

(***************************************************************************)
(* Responses (utils/responses).                                            *)
(***************************************************************************)

NoResponse == [statusCode |-> 0, error |-> "", details |-> <<>>, data |-> <<>>]

\* createErrorResponse: details are part of the body only when there are
\* any, which an empty list stands for here.
createErrorResponse(statusCode, error, details) ==
  [statusCode |-> statusCode, error |-> error, details |-> details, data |-> <<>>]

FILE_NOT_PROVIDED == "No file provided in the request"

FILE_TOO_LARGE == "File too large"

INVALID_METADATA == "Invalid metadata format"

INTERNAL_ERROR == "Internal server error"

createFileSizeError(actualSize) ==
  createErrorResponse(413, FILE_TOO_LARGE, <<"Maximum file size is 10MB">>)

\* A validation answer that leaves the errors out.
createValidationErrorBare(errs) == createErrorResponse(400, INVALID_METADATA, <<>>)

createValidationError(errs) == createErrorResponse(400, INVALID_METADATA, errs)

createInternalError(message) == createErrorResponse(500, INTERNAL_ERROR, <<message>>)

createSuccessResponse(data) ==
  [statusCode |-> 200, error |-> "", details |-> <<>>, data |-> <<data>>]

(***************************************************************************)
(* parseMultipartData: the header checks (upload.ts:153-171).              *)
(***************************************************************************)

LitMultipart == <<"m","u","l","t","i","p","a","r","t","/","f","o","r","m","-","d","a","t","a">>

LitBoundaryEq == <<"b","o","u","n","d","a","r","y","=">>

\* event.headers['content-type'] || event.headers['Content-Type'] || ''.
ContentTypeHeader(headers) == OrElse(headers.lower, OrElse(headers.canon, <<>>))

\* Where /boundary=([^;]+)/ matches in the header value ct.
BoundaryHits(ct) ==
  {i \in 0..(Len(ct) - 1) :
     IsAt(ct, i, LitBoundaryEq)
       /\ RunNotIn(ct, i + Len(LitBoundaryEq), {";"}) > i + Len(LitBoundaryEq)}

\* boundaryMatch[1], for a match at offset i.
BoundaryAt(ct, i) ==
  Slice(ct, i + Len(LitBoundaryEq), RunNotIn(ct, i + Len(LitBoundaryEq), {";"}))

Thrown(message) == [threw |-> TRUE, message |-> message, parts |-> <<>>]

Returned(ps) == [threw |-> FALSE, message |-> "", parts |-> ps]

\* Buffer.from(event.body, ...) and the decoding of the buffer
\* (upload.ts:166-171).  The body of an event of the model is the buffer
\* that Buffer.from makes of it; without a body Buffer.from throws.
DecodeBody(bodyOpt, b) ==
  IF ~bodyOpt.def
    THEN Thrown("The first argument must be of type string or an instance of Buffer")
    ELSE Returned(parseMultipartBody(bodyOpt.val, b))

\* The header value ct, its boundary matches at the offsets hits.
DecodeWith(ct, hits, bodyOpt) ==
  IF ~Includes(ct, LitMultipart)
    THEN Thrown("Content-Type must be multipart/form-data")
  ELSE IF hits = {}
    THEN Thrown("No boundary found in Content-Type header")
  ELSE DecodeBody(bodyOpt, BoundaryAt(ct, Min(hits)))

DecodeHeader(ct, bodyOpt) == DecodeWith(ct, BoundaryHits(ct), bodyOpt)

\* parseMultipartData up to its const parts: the parts, or the error thrown.
DecodeEvent(ev) == DecodeHeader(ContentTypeHeader(ev.headers), ev.body)

(***************************************************************************)
(* The upload handler (upload.ts:35-148).                                  *)
(***************************************************************************)

\* A check that finds a file in every request.
FileNeverMissing(fd) == FALSE

\* !fileData (upload.ts:50).
FileMissing(fd) == ~fd.present

\* A size check that already refuses a file of the greatest size.
FileTooLargeAtLimit(fd) == ByteLength(fd.content) >= MAX_FILE_SIZE

\* fileData.content.length > FILE_SIZE_LIMITS.MAX_FILE_SIZE (upload.ts:63).
FileTooLarge(fd) == ByteLength(fd.content) > MAX_FILE_SIZE

\* The time stamp of every call of new Date().toISOString(): the clock is
\* left out of the model.
Timestamp == "timestamp"

UPLOAD_PREFIX == <<"u","p","l","o","a","d","s","/">>

\* `${S3_KEY_PATTERNS.UPLOAD_PREFIX}${fileId}/${fileData.filename}`.
S3KeyOf(id, fd) == UPLOAD_PREFIX \o id \o <<"/">> \o fd.filename

\* uploadParams of uploadFileToS3 (upload.ts:109-119).
S3Object(fd, key, id) ==
  [Key |-> key, Body |-> fd.content, ContentType |-> fd.contentType,
   originalName |-> fd.filename, fileId |-> id, uploadTimestamp |-> Timestamp]

\* PutObject: the object replaces any object of the same key.
PutObject(objects, o) == {x \in objects : x.Key # o.Key} \cup {o}

\* The text of a sequence of characters, as the name of an attribute.
RECURSIVE Text(_)
Text(s) == IF s = <<>> THEN "" ELSE s[1] \o Text(Tail(s))

\* A metadata value as the attribute it would be outside client_metadata.
SpreadValue(v) ==
  IF v.type = "string" THEN Text(v.str)
  ELSE IF v.type = "number" THEN v.num.m
  ELSE v.bool

\* An item with the client metadata spread over it after the attributes
\* of the system, so that a client key takes the place of an attribute of
\* the same name.
DbItemSpread(id, fd, key, clientMetadata) ==
  [a \in {Text(clientMetadata[j].key) : j \in 1..Len(clientMetadata)} |->
     SpreadValue(clientMetadata[CHOOSE j \in 1..Len(clientMetadata) :
                                  Text(clientMetadata[j].key) = a].value)]
  @@ [file_id |-> id, file_name |-> fd.filename, content_type |-> fd.contentType,
      s3_key |-> key, upload_date |-> Timestamp, file_size |-> ByteLength(fd.content),
      status |-> "uploaded", client_metadata |-> clientMetadata]

\* dbItem of storeMetadataInDynamoDB (upload.ts:133-142).
DbItem(id, fd, key, clientMetadata) ==
  [file_id |-> id, file_name |-> fd.filename, content_type |-> fd.contentType,
   s3_key |-> key, upload_date |-> Timestamp, file_size |-> ByteLength(fd.content),
   status |-> "uploaded", client_metadata |-> clientMetadata]

\* Put: the item replaces any item of the same file_id.
PutItem(items, it) == {x \in items : x.file_id # it.file_id} \cup {it}

\* The body of the success response (upload.ts:90-97).
UploadResponse(id, key, fd, cleaned) ==
  [file_id |-> id, s3_key |-> key, file_name |-> fd.filename,
   file_size |-> ByteLength(fd.content),
   metadata_fields_stored |-> Len(ObjectKeys(cleaned))]

(***************************************************************************)
(* The classifier of the processor: extractFileMetadata and                *)
(* getSizeCategory (processor, final revision).                            *)
(***************************************************************************)

\* FILE_SIZE_LIMITS.SMALL_FILE_THRESHOLD.
SMALL_FILE_THRESHOLD == 1024 * 1024

\* FILE_SIZE_LIMITS.LARGE_FILE_THRESHOLD.
LARGE_FILE_THRESHOLD == 10 * 1024 * 1024

\* The size category of the earlier revision of the processor, with its
\* fourth tier from 100 MB on.
getSizeCategoryFourTiers(fileSize) ==
  IF fileSize < 1024 * 1024 THEN "small"
  ELSE IF fileSize < 10 * 1024 * 1024 THEN "medium"
  ELSE IF fileSize < 100 * 1024 * 1024 THEN "large"
  ELSE "very_large"

getSizeCategory(fileSize) ==
  IF fileSize < SMALL_FILE_THRESHOLD THEN "small"
  ELSE IF fileSize < LARGE_FILE_THRESHOLD THEN "medium"
  ELSE "large"

\* One character of String.prototype.toUpperCase.
Upper(c) ==
  IF c \in LowerLetters
    THEN CHOOSE u \in DOMAIN UpperToLower : UpperToLower[u] = c
    ELSE c

toUpperCase(s) == [k \in 1..Len(s) |-> Upper(s[k])]

\* String.prototype.startsWith.
startsWith(s, lit) == IsAt(s, 0, lit)

\* fileName.split('.').pop(): the text after the last point, and the whole
\* name when it has no point.
LastSegment(fileName, points) ==
  IF points = {} THEN fileName ELSE SliceFrom(fileName, Max(points))

\* fileName.split('.').pop()?.toLowerCase() || ''.
FileExtension(fileName) ==
  toLowerCase(LastSegment(fileName, {k \in 1..Len(fileName) : fileName[k] = "."}))

\* Math.ceil(a / b) for integers a >= 0 and b > 0.
Ceil(a, b) == (a + b - 1) \div b

\* Math.max(1, n).
AtLeastOne(n) == IF n < 1 THEN 1 ELSE n

\* A page estimate that counts the began page besides the full ones.
EstimatedPagesPlusOne(fileSize) == AtLeastOne((fileSize \div 50000) + 1)

\* Math.max(1, Math.ceil(fileSize / 50000)).
EstimatedPages(fileSize) == AtLeastOne(Ceil(fileSize, 50000))

\* A line estimate that counts full lines only.
EstimatedLinesFloor(fileSize) == fileSize \div 50

\* Math.max(1, Math.ceil(fileSize / 50)).
EstimatedLines(fileSize) == AtLeastOne(Ceil(fileSize, 50))

LitImage == <<"i","m","a","g","e","/">>

LitText == <<"t","e","x","t","/">>

LitVideo == <<"v","i","d","e","o","/">>

LitAudio == <<"a","u","d","i","o","/">>

LitApplicationPdf == <<"a","p","p","l","i","c","a","t","i","o","n","/","p","d","f">>

LitPdf == <<"p","d","f">>

TextExtensions == {<<"t","x","t">>, <<"m","d">>, <<"c","s","v">>, <<"j","s","o","n">>, <<"x","m","l">>, <<"h","t","m","l">>, <<"c","s","s">>, <<"j","s">>, <<"t","s">>}

VideoExtensions == {<<"m","p","4">>, <<"a","v","i">>, <<"m","o","v">>, <<"w","m","v">>, <<"f","l","v">>, <<"w","e","b","m">>, <<"m","k","v">>}

AudioExtensions == {<<"m","p","3">>, <<"w","a","v">>, <<"f","l","a","c">>, <<"a","a","c">>, <<"o","g","g">>, <<"m","4","a">>}

OfficeExtensions == {<<"d","o","c">>, <<"d","o","c","x">>, <<"x","l","s">>, <<"x","l","s","x">>, <<"p","p","t">>, <<"p","p","t","x">>}

ArchiveExtensions == {<<"z","i","p">>, <<"r","a","r">>, <<"7","z">>, <<"t","a","r">>, <<"g","z">>}

\* The file type of the office row in the earlier revision.
ExtractedFileType_OFFICE == "office"

\* ExtractedFileType.DOCUMENT.
ExtractedFileType_DOCUMENT == "document"

\* const metadata = { ... } (the defaults of file_type and category).
InitialMetadata(contentType, fileExtension, fileSize) ==
  [file_size |-> fileSize,
   content_type |-> contentType,
   file_extension |-> fileExtension,
   processing_timestamp |-> Timestamp,
   file_type |-> "unknown",
   category |-> "other",
   size_category |-> getSizeCategory(fileSize)]

\* metadata.file_type = type; metadata.category = category.
Typed(m, type, category) == [m EXCEPT !.file_type = type, !.category = category]

\* metadata.format = f, when a branch sets it.
WithFormat(m, f) == IF f.def THEN [format |-> f.val] @@ m ELSE m

ImageFormat(contentType) ==
  IF Includes(contentType, <<"j","p","e","g">>) \/ Includes(contentType, <<"j","p","g">>) THEN Some(<<"J","P","E","G">>)
  ELSE IF Includes(contentType, <<"p","n","g">>) THEN Some(<<"P","N","G">>)
  ELSE IF Includes(contentType, <<"g","i","f">>) THEN Some(<<"G","I","F">>)
  ELSE IF Includes(contentType, <<"w","e","b","p">>) THEN Some(<<"W","e","b","P">>)
  ELSE IF Includes(contentType, <<"s","v","g">>) THEN Some(<<"S","V","G">>)
  ELSE Undefined

VideoFormat(contentType, fileExtension) ==
  IF Includes(contentType, <<"m","p","4">>) \/ fileExtension = <<"m","p","4">> THEN Some(<<"M","P","4">>)
  ELSE IF Includes(contentType, <<"w","e","b","m">>) \/ fileExtension = <<"w","e","b","m">> THEN Some(<<"W","e","b","M">>)
  ELSE IF fileExtension = <<"a","v","i">> THEN Some(<<"A","V","I">>)
  ELSE Undefined

AudioFormat(contentType, fileExtension) ==
  IF Includes(contentType, <<"m","p","e","g">>) \/ fileExtension = <<"m","p","3">> THEN Some(<<"M","P","3">>)
  ELSE IF Includes(contentType, <<"w","a","v">>) \/ fileExtension = <<"w","a","v">> THEN Some(<<"W","A","V">>)
  ELSE IF fileExtension = <<"f","l","a","c">> THEN Some(<<"F","L","A","C">>)
  ELSE Undefined

OfficeFormat(fileExtension) ==
  IF fileExtension \in {<<"d","o","c">>, <<"d","o","c","x">>} THEN Some(<<"W","o","r","d"," ","D","o","c","u","m","e","n","t">>)
  ELSE IF fileExtension \in {<<"x","l","s">>, <<"x","l","s","x">>} THEN Some(<<"E","x","c","e","l"," ","S","p","r","e","a","d","s","h","e","e","t">>)
  ELSE IF fileExtension \in {<<"p","p","t">>, <<"p","p","t","x">>} THEN Some(<<"P","o","w","e","r","P","o","i","n","t"," ","P","r","e","s","e","n","t","a","t","i","o","n">>)
  ELSE Undefined

\* A chain that tests for a PDF before it tests for an image.
DetectPdfFirst(m, contentType, fileExtension, fileSize) ==
  IF contentType = LitApplicationPdf \/ fileExtension = LitPdf
    THEN [estimated_pages |-> EstimatedPages(fileSize)] @@ Typed(m, "pdf", "document")
  ELSE IF startsWith(contentType, LitImage)
    THEN WithFormat(Typed(m, "image", "media"), ImageFormat(contentType))
  ELSE m

\* The if chain of extractFileMetadata on the initial metadata m.
Detect(m, contentType, fileExtension, fileSize) ==
  IF startsWith(contentType, LitImage)
    THEN WithFormat(Typed(m, "image", "media"), ImageFormat(contentType))
  ELSE IF contentType = LitApplicationPdf \/ fileExtension = LitPdf
    THEN [estimated_pages |-> EstimatedPages(fileSize)] @@ Typed(m, "pdf", "document")
  ELSE IF startsWith(contentType, LitText) \/ fileExtension \in TextExtensions
    THEN IF fileSize > 0
           THEN [estimated_lines |-> EstimatedLines(fileSize)] @@ Typed(m, "text", "document")
           ELSE Typed(m, "text", "document")
  ELSE IF startsWith(contentType, LitVideo) \/ fileExtension \in VideoExtensions
    THEN WithFormat(Typed(m, "video", "media"), VideoFormat(contentType, fileExtension))
  ELSE IF startsWith(contentType, LitAudio) \/ fileExtension \in AudioExtensions
    THEN WithFormat(Typed(m, "audio", "media"), AudioFormat(contentType, fileExtension))
  ELSE IF fileExtension \in OfficeExtensions
    THEN WithFormat(Typed(m, ExtractedFileType_DOCUMENT, "document"), OfficeFormat(fileExtension))
  ELSE IF fileExtension \in ArchiveExtensions
    THEN WithFormat(Typed(m, "archive", "compressed"), Some(toUpperCase(fileExtension)))
  ELSE m

Classify(contentType, fileExtension, fileSize) ==
  Detect(InitialMetadata(contentType, fileExtension, fileSize),
         contentType, fileExtension, fileSize)

\* extractFileMetadata(s3Object, fileName, fileSize), the content type of
\* s3Object being s3Object.ContentType || ''.
extractFileMetadata(s3Object, fileName, fileSize) ==
  Classify(OrElse(s3Object.ContentType, <<>>), FileExtension(fileName), fileSize)

(***************************************************************************)
(* The processor: its handler and updateDynamoDBWithMetadata (processor,   *)
(* final revision), with the object store and the metadata store it calls. *)
(***************************************************************************)

HexDigits == {"0","1","2","3","4","5","6","7","8","9",
              "a","b","c","d","e","f","A","B","C","D","E","F"}

HexValue(c) ==
  IF c \in Digits THEN DigitValue[c]
  ELSE CASE Lower(c) = "a" -> 10 [] Lower(c) = "b" -> 11 [] Lower(c) = "c" -> 12
         [] Lower(c) = "d" -> 13 [] Lower(c) = "e" -> 14 [] Lower(c) = "f" -> 15

\* The characters of the codes 32 to 126; "grave" stands for the grave
\* accent, which a string of this notation cannot hold.
AsciiPrintable ==
  <<" ","!","\"","#","$","%","&","'","(",")","*","+",",","-",".","/","0",
  "1","2","3","4","5","6","7","8","9",":",";","<","=",">","?","@","A","B",
  "C","D","E","F","G","H","I","J","K","L","M","N","O","P","Q","R","S","T",
  "U","V","W","X","Y","Z","[","\\","]","^","_","grave","a","b","c","d","e","f",
  "g","h","i","j","k","l","m","n","o","p","q","r","s","t","u","v","w","x",
  "y","z","{","|","}","~">>

\* key.replace(/\+/g, ' ').
PlusToSpace(s) == [k \in 1..Len(s) |-> IF s[k] = "+" THEN " " ELSE s[k]]

Decoding(ok, val) == [ok |-> ok, val |-> val]

\* decodeURIComponent from offset i on, acc being decoded already: an
\* escape %XY of a code from 32 to 126 gives its character, and a % without
\* two hexadecimal digits throws URIError.  Escapes of other codes are
\* outside the keys of this model and are refused like malformed ones.
RECURSIVE DecodeFrom(_, _, _)
DecodeFrom(s, i, acc) ==
  IF i >= Len(s) THEN Decoding(TRUE, acc)
  ELSE IF s[i + 1] # "%" THEN DecodeFrom(s, i + 1, Append(acc, s[i + 1]))
  ELSE IF i + 3 > Len(s) \/ s[i + 2] \notin HexDigits \/ s[i + 3] \notin HexDigits
    THEN Decoding(FALSE, <<>>)
  ELSE IF 16 * HexValue(s[i + 2]) + HexValue(s[i + 3]) \notin 32..126
    THEN Decoding(FALSE, <<>>)
  ELSE DecodeFrom(s, i + 3,
         Append(acc, AsciiPrintable[16 * HexValue(s[i + 2]) + HexValue(s[i + 3]) - 31]))

decodeURIComponent(s) == DecodeFrom(s, 0, <<>>)

\* The key of an object as the object-created event carries it: a space
\* as +, and a +  or a % as its escape.
RECURSIVE EventKeyFrom(_, _)
EventKeyFrom(key, i) ==
  IF i > Len(key) THEN <<>>
  ELSE (CASE key[i] = " " -> <<"+">>
          [] key[i] = "+" -> <<"%", "2", "B">>
          [] key[i] = "%" -> <<"%", "2", "5">>
          [] OTHER -> <<key[i]>>) \o EventKeyFrom(key, i + 1)

EventKey(key) == EventKeyFrom(key, 1)

\* The record of the object-created event for object o.
EventRecord(o) == [key |-> EventKey(o.Key), size |-> ByteLength(o.Body)]

\* bucket.addEventNotification(OBJECT_CREATED, LambdaDestination(processor),
\* { prefix: 'uploads/' }): the events pending after object o is created.
ObjectCreated(pending, o) ==
  IF startsWith(o.Key, UPLOAD_PREFIX) THEN pending \cup {<<EventRecord(o)>>} ELSE pending

\* s.split('/') from offset i on.
RECURSIVE SplitFrom(_, _)
SplitFrom(s, i) ==
  IF IndexOf(s, <<"/">>, i) = -1 THEN <<SliceFrom(s, i)>>
  ELSE <<Slice(s, i, IndexOf(s, <<"/">>, i))>> \o SplitFrom(s, IndexOf(s, <<"/">>, i) + 1)

\* objectKey.split('/').
KeyParts(key) == SplitFrom(key, 0)

LitUploads == <<"u","p","l","o","a","d","s">>

\* keyParts.length < 3 || keyParts[0] !== 'uploads'.
NotExpectedFormat(keyParts) == Len(keyParts) < 3 \/ keyParts[1] # LitUploads

\* const fileId = keyParts[1].
FileIdOf(key) == KeyParts(key)[2]

\* parts.join('/') from the i-th part on.
RECURSIVE JoinFrom(_, _)
JoinFrom(keyParts, i) ==
  IF i > Len(keyParts) THEN <<>>
  ELSE IF i = Len(keyParts) THEN keyParts[i]
  ELSE keyParts[i] \o <<"/">> \o JoinFrom(keyParts, i + 1)

\* const fileName = keyParts.slice(2).join('/').
FileNameOf(key) == JoinFrom(KeyParts(key), 3)

\* GetObject: the objects of the bucket with the key.
ObjectsAt(objects, key) == {o \in objects : o.Key = key}

\* What GetObject resolves to for object o.
GetObjectOutput(o) == [ContentType |-> Some(o.ContentType)]

\* The attributes extracted_<field> of the update expression
\* (processor: Object.entries(extractedMetadata).forEach).
Flattened(extracted) ==
  [a \in {"extracted_" \o f : f \in DOMAIN extracted} |->
     extracted[CHOOSE f \in DOMAIN extracted : "extracted_" \o f = a]]

\* An update that marks the record and leaves the extracted fields out.
SetAttributesStatusOnly(item, extracted) ==
  [status |-> "processed", processing_date |-> Timestamp] @@ item

\* SET #status = :status, #processing_date = :processing_date and every
\* #extracted_<field> = :extracted_<field> on an item.
SetAttributes(item, extracted) ==
  [status |-> "processed", processing_date |-> Timestamp] @@ Flattened(extracted) @@ item

\* An update without a condition: it makes the item when there is none.
UpdateOrCreate(items, id, extracted) ==
  IF \E x \in items : x.file_id = id
    THEN {IF x.file_id = id THEN SetAttributes(x, extracted) ELSE x : x \in items}
    ELSE items \cup {SetAttributes([file_id |-> id], extracted)}

\* UpdateCommand under ConditionExpression attribute_exists(file_id): the
\* items after it, which are the items before it when the condition fails.
UpdateItem(items, id, extracted) ==
  {IF x.file_id = id THEN SetAttributes(x, extracted) ELSE x : x \in items}

\* Whether the condition attribute_exists(file_id) holds for id.
RecordExists(items, id) == \E x \in items : x.file_id = id

(***************************************************************************)
(* Request bodies.  A body is written from a list of sections, each with a *)
(* Content-Disposition line in one of four syntaxes, and from the place of *)
(* the terminating delimiter.                                              *)
(***************************************************************************)

\* The largest number of sections of a body.
MaxParts == 2

Boundary == <<"B">>

LitDispositionLine == <<"C","o","n","t","e","n","t","-","D","i","s","p","o","s","i","t","i","o","n",":"," ","f","o","r","m","-","d","a","t","a",";"," ">>

LitContentTypeLine == <<"C","o","n","t","e","n","t","-","T","y","p","e",":"," ">>

Quote(v) == <<"\"">> \o v \o <<"\"">>

Syntaxes == {"quoted", "bare", "nameQuoted", "filenameQuoted"}

\* The Content-Disposition line of a section: `quoted` is the standard
\* form, `bare` has no quotes, and the two mixed forms quote one value only.
DispositionLine(sec) ==
  LET n == IF sec.syn \in {"quoted", "nameQuoted"} THEN Quote(sec.name) ELSE sec.name
      f == IF sec.syn \in {"quoted", "filenameQuoted"}
             THEN Quote(sec.filename.val) ELSE sec.filename.val
  IN  LitDispositionLine \o LitName \o n
        \o (IF sec.filename.def THEN <<";", " ">> \o LitFilename \o f ELSE <<>>)

\* The header lines of a section.  A section of syntax `noName` has no
\* Content-Disposition line.
HeaderLines(sec) ==
  IF sec.syn = "noName"
    THEN (IF sec.contentType.def
            THEN LitContentTypeLine \o sec.contentType.val ELSE <<>>)
    ELSE DispositionLine(sec)
           \o (IF sec.contentType.def
                 THEN CRLF \o LitContentTypeLine \o sec.contentType.val ELSE <<>>)

\* CRLF headers CRLF CRLF data CRLF: what lies between two delimiters.  A
\* section of syntax `noSeparator` has one CRLF between headers and data.
EncodeSection(sec) ==
  CRLF \o HeaderLines(sec)
    \o (IF sec.syn = "noSeparator" THEN CRLF ELSE CRLFCRLF)
    \o sec.data \o CRLF

\* The body of sections secs with boundary b.  The terminating delimiter
\* `--b--` closes the body; when termAt < Len(secs) a terminating delimiter
\* and CRLF also follow section termAt, and the later sections come after it.
\* Section i behind its delimiter.
EncodeAt(secs, termAt, b, i) ==
  boundaryBuffer(b) \o EncodeSection(secs[i])
    \o (IF i = termAt /\ i < Len(secs) THEN endBoundaryBuffer(b) \o CRLF ELSE <<>>)

\* Sections lo to hi, by halves.
RECURSIVE EncodeFrom(_, _, _, _, _)
EncodeFrom(secs, termAt, b, lo, hi) ==
  IF lo > hi THEN <<>>
  ELSE IF lo = hi THEN EncodeAt(secs, termAt, b, lo)
  ELSE EncodeFrom(secs, termAt, b, lo, (lo + hi) \div 2)
         \o EncodeFrom(secs, termAt, b, (lo + hi) \div 2 + 1, hi)

EncodeBody(in, b) ==
  EncodeFrom(in.secs, in.termAt, b, 1, Len(in.secs)) \o endBoundaryBuffer(b)

SeqsUpTo(S, n) == UNION {[1..k -> S] : k \in 0..n}

Section(syn, name, filename, contentType, data) ==
  [syn |-> syn, name |-> name, filename |-> filename,
   contentType |-> contentType, data |-> data]

NameMenu == {<<"a">>, <<"b", " ">>}

FilenameMenu == {Undefined, Some(<<"f">>)}

ContentTypeMenu == {Undefined, Some(<<"t">>)}

DataMenu == {<<>>, <<"x">>, <<"-", "-", "\r", "\n", "\r", "\n", "y">>}

\* Every section the menus allow.
Sections ==
  {Section(syn, n, f, c, d) :
     syn \in Syntaxes, n \in NameMenu, f \in FilenameMenu,
     c \in ContentTypeMenu, d \in DataMenu}

\* The sections that bodies of several parts are written from.
QuotedMenu ==
  {Section("quoted", <<"a">>, Some(<<"f">>), Some(<<"t">>), <<"x">>),
   Section("quoted", <<"a">>, Undefined, Undefined, <<>>),
   Section("quoted", <<"b", " ">>, Undefined, Undefined, <<"x">>),
   Section("quoted", <<"a">>, Some(<<"f">>), Undefined,
           <<"-", "-", "\r", "\n", "\r", "\n", "y">>)}

\* Sections that are no part: one without the blank line between headers
\* and data, one without a Content-Disposition line.
AnomalousSyntaxes == {"noSeparator", "noName"}

AnomalousMenu ==
  {Section("noSeparator", <<"a">>, Undefined, Undefined, <<"x">>),
   Section("noName", <<"a">>, Undefined, Some(<<"t">>), <<"x">>)}

\* A body is closed after its last section only when termAt = Len(secs).
DecodeInputs ==
  {in \in {[secs |-> s, termAt |-> k] :
             s \in SeqsUpTo(QuotedMenu \cup AnomalousMenu, MaxParts),
             k \in 0..MaxParts} :
     \/ in.termAt = Len(in.secs)
     \/ 1 <= in.termAt /\ in.termAt < Len(in.secs)}
  \cup {[secs |-> <<sec>>, termAt |-> 1] : sec \in Sections}

(***************************************************************************)
(* State.                                                                  *)
(***************************************************************************)

VARIABLES
  pc,        \* where the modelled run stands
  input,     \* what the request was written from (never read by the code)
  body,      \* parseMultipartBody: the buffer
  boundary,  \* parseMultipartBody: the boundary token
  start,     \* parseMultipartBody: let start
  end,       \* parseMultipartBody: let end
  parts,     \* parseMultipartBody: const parts
  partsDone,        \* parseMultipartData: the parts its loop has handled
  fileData,         \* parseMultipartData: let fileData
  metadata,         \* parseMultipartData: const metadata
  entriesDone,      \* validateMetadata: the entries its loop has handled
  errors,           \* validateMetadata: const errors
  cleanedMetadata,  \* validateMetadata: const cleanedMetadata
  event,            \* handler: the API Gateway event
  fileId,           \* handler: const fileId
  s3Key,            \* handler: const s3Key
  response,         \* handler: what it returned
  bucket,           \* the objects of the S3 bucket
  table,            \* the items of the DynamoDB table
  notifications,    \* the object-created events not yet delivered
  ppc,              \* where the processor handler stands
  records,          \* processor: event.Records
  recordsDone,      \* processor: the records its loop has handled
  objectKey,        \* processor: const objectKey
  objectSize,       \* processor: const objectSize
  s3Object,         \* processor: const s3Object
  extractedMetadata,  \* processor: const extractedMetadata
  procLog           \* processor: what it logged for each record, and at its end

scanVars == <<body, boundary, start, end>>

normVars == <<partsDone, fileData, metadata, entriesDone, errors, cleanedMetadata>>

handlerVars == <<event, fileId, s3Key, response, bucket, table>>

procVars == <<notifications, ppc, records, recordsDone, objectKey, objectSize,
              s3Object, extractedMetadata, procLog>>

vars == <<pc, input, body, boundary, start, end, parts, partsDone, fileData,
          metadata, entriesDone, errors, cleanedMetadata, event, fileId, s3Key,
          response, bucket, table, notifications, ppc, records, recordsDone,
          objectKey, objectSize, s3Object, extractedMetadata, procLog>>

NoObject == [ContentType |-> Undefined]

NoMetadata == [file_type |-> "unknown"]

\* The locals of the processor at the start of a record.
RecordEntry ==
  /\ objectKey = <<>>
  /\ objectSize = 0
  /\ s3Object = NoObject
  /\ extractedMetadata = NoMetadata

\* The processor has not been invoked, and no event is pending.
ProcessorIdle ==
  /\ notifications = {}
  /\ ppc = "idle"
  /\ records = <<>>
  /\ recordsDone = 0
  /\ procLog = <<>>
  /\ RecordEntry

NoEvent == [headers |-> [lower |-> Undefined, canon |-> Undefined], body |-> Undefined]

\* No request has been handled: nothing is stored and nothing was answered.
HandlerEntry(ev) ==
  /\ event = ev
  /\ fileId = <<>>
  /\ s3Key = <<>>
  /\ response = NoResponse
  /\ bucket = {}
  /\ table = {}

\* The locals of parseMultipartData and validateMetadata before either runs.
NormalizeEntry ==
  /\ partsDone = 0
  /\ fileData = NoFileData
  /\ metadata = <<>>
  /\ entriesDone = 0
  /\ errors = <<>>
  /\ cleanedMetadata = <<>>

(***************************************************************************)
(* SpecDecode: parseMultipartBody run on every body of DecodeInputs, one   *)
(* loop iteration a step.                                                  *)
(***************************************************************************)

\* The state when parseMultipartBody(buf, b) reaches its loop.
ScanEntry(buf, b, st) ==
  /\ boundary = b
  /\ body = buf
  /\ start = st.start
  /\ end = st.end
  /\ parts = st.parts
  /\ pc = "scan"

InitDecode ==
  \E in \in DecodeInputs :
    /\ input = in
    /\ ScanEntry(EncodeBody(in, Boundary), Boundary,
                 ScanInit(EncodeBody(in, Boundary), Boundary))
    /\ NormalizeEntry
    /\ HandlerEntry(NoEvent)
    /\ ProcessorIdle

\* The locals after an iteration that ends in state st.
ScanAssign(st) ==
  /\ start' = st.start
  /\ end' = st.end
  /\ parts' = st.parts
  /\ pc' = IF st.brk THEN "return" ELSE "scan"

\* One iteration of the while loop (upload.ts:217-234).
ScanIterate ==
  /\ pc = "scan"
  /\ end # -1
  /\ \E st \in {ScanStep(body, boundary,
                          [start |-> start, end |-> end, parts |-> parts, brk |-> FALSE])} :
       ScanAssign(st)
  /\ UNCHANGED <<input, body, boundary, normVars, handlerVars, procVars>>

\* The loop test fails: return parts (upload.ts:236).
ScanReturn ==
  /\ pc = "scan"
  /\ end = -1
  /\ pc' = "return"
  /\ UNCHANGED <<input, scanVars, parts, normVars, handlerVars, procVars>>

NextDecode == ScanIterate \/ ScanReturn

SpecDecode == InitDecode /\ [][NextDecode]_vars

(***************************************************************************)
(* SpecScan: parseMultipartBody run on every body of hyphens and letters   *)
(* up to a length, with the boundary `-`.                                  *)
(***************************************************************************)

\* The greatest length of a body written byte by byte.
MaxRawLen == 6

\* A boundary whose delimiter `---` can lie over itself, and whose
\* terminating delimiter is `-----`.
Hyphen == <<"-">>

\* Every body of hyphens and letters: delimiters one upon the other, one
\* after the other, terminating and not, and none.
RawBodies == SeqsUpTo({"-", "x"}, MaxRawLen)

InitScan ==
  \E buf \in RawBodies :
    /\ input = [secs |-> <<>>, termAt |-> 0]
    /\ ScanEntry(buf, Hyphen, ScanInit(buf, Hyphen))
    /\ NormalizeEntry
    /\ HandlerEntry(NoEvent)
    /\ ProcessorIdle

SpecScan == InitScan /\ [][NextDecode]_vars

\* parseMultipartBody is synchronous: once called it runs on to its return.
SpecScanFair == SpecScan /\ WF_vars(NextDecode)

(***************************************************************************)
(* Claims about the decoder, checked under SpecDecode.                     *)
(***************************************************************************)

\* The part a section declares.
DeclaredPart(sec) ==
  [name |-> sec.name, filename |-> sec.filename,
   contentType |-> sec.contentType, data |-> sec.data]

DeclaredParts(secs) == [i \in 1..Len(secs) |-> DeclaredPart(secs[i])]

\* The standard encoding of the round trip: every Content-Disposition line
\* quoted, the body closed after its last section and nowhere else, and the
\* boundary in no payload.
StandardEncoding(in) ==
  /\ in.termAt = Len(in.secs)
  /\ \A i \in 1..Len(in.secs) :
       /\ in.secs[i].syn = "quoted"
       /\ ~Includes(in.secs[i].data, Boundary)

\* A name or a filename that the decoder gives back as written.
WellFormedHeaderValue(v) ==
  /\ v # <<>>
  /\ trim(v) = v
  /\ \A k \in 1..Len(v) : v[k] \notin {"\"", "\r", "\n"}
  /\ \A i \in 0..(Len(v) - 1) : ~IsAtCI(v, i, LitContentType)
  /\ ~Includes(v, boundaryBuffer(Boundary))

\* A content type that the decoder gives back as written.
WellFormedContentType(v) ==
  /\ v # <<>>
  /\ trim(v) = v
  /\ \A k \in 1..Len(v) : v[k] \notin EOL
  /\ ~Includes(v, boundaryBuffer(Boundary))

WellFormedSection(sec) ==
  /\ WellFormedHeaderValue(sec.name)
  /\ sec.filename.def => WellFormedHeaderValue(sec.filename.val)
  /\ sec.contentType.def => WellFormedContentType(sec.contentType.val)

WellFormedHeaders(in) == \A i \in 1..Len(in.secs) : WellFormedSection(in.secs[i])

\* C1 as stated: for every sequence of parts in the standard encoding,
\* parseMultipartBody returns one part per encoded part, in order, with the
\* name, filename, content type and payload that were encoded.
C1_RoundTripAnyPart ==
  (pc = "return" /\ StandardEncoding(input)) => parts = DeclaredParts(input.secs)

\* C1 amended: the round trip holds when, besides, every name and filename
\* is non-empty, has no white space at either end, no double quote, CR or
\* LF and no `Content-Type:` text, every content type is non-empty, has no
\* white space at either end and no CR or LF, and none of them holds the
\* delimiter `--B`.
C1_RoundTrip ==
  (pc = "return" /\ StandardEncoding(input) /\ WellFormedHeaders(input))
    => parts = DeclaredParts(input.secs)

\* C1 witness: a body of two well-formed parts or more, one of them with a
\* filename and a content type, decoded to the end.
C1_Witness ==
  /\ pc = "return"
  /\ StandardEncoding(input) /\ WellFormedHeaders(input)
  /\ Len(input.secs) >= 2
  /\ \E i \in 1..Len(input.secs) :
       /\ input.secs[i].filename.def
       /\ input.secs[i].contentType.def
       /\ input.secs[i].data # <<>>
  /\ parts = DeclaredParts(input.secs)

\* The parts of the sections secs, each section parsed on its own.
SectionParts(secs) ==
  LET ps == [i \in 1..Len(secs) |-> parseMultipartPart(EncodeSection(secs[i]))]
      ok == SelectSeq(ps, LAMBDA q : q.ok)
  IN  [i \in 1..Len(ok) |-> AsPart(ok[i])]

\* C2: the scan stops at the terminating delimiter: no section that lies
\* after it yields a part, so the parts returned are those of the sections
\* before it.
C2_StopsAtTerminator ==
  pc = "return" => parts = SectionParts(SubSeq(input.secs, 1, input.termAt))

\* A value that can be written quoted and bare alike.
PlainToken(v) ==
  /\ v # <<>>
  /\ \A k \in 1..Len(v) : v[k] \notin (BareStop \cup {"\""})

\* C3: a Content-Disposition line that declares a name and a filename, in
\* any of the accepted syntaxes (both quoted, both bare, one quoted and the
\* other bare), yields the declared name and the declared filename.
C3_NameAndFilename ==
  (/\ pc = "return"
   /\ Len(input.secs) = 1
   /\ input.secs[1].filename.def
   /\ PlainToken(input.secs[1].name)
   /\ PlainToken(input.secs[1].filename.val))
    => /\ Len(parts) = 1
       /\ parts[1].name = input.secs[1].name
       /\ parts[1].filename = input.secs[1].filename

\* Whether section sec is one that the claim has skipped.
Anomalous(sec) == sec.syn \in AnomalousSyntaxes

\* C23: a section without the CRLFCRLF separator, or whose headers give no
\* name, gives no part and no error, and the list returned is the parts of
\* the other sections, each parsed on its own, in the order of the buffer.
C23_SkipNotFail ==
  pc = "return" =>
    /\ \A i \in 1..Len(input.secs) :
         Anomalous(input.secs[i]) => ~parseMultipartPart(EncodeSection(input.secs[i])).ok
    /\ parts = SectionParts(SelectSeq(input.secs, LAMBDA sec : ~Anomalous(sec)))

\* A body whose first section is skipped and whose second gives a part has
\* been decoded to the end.
C23_Witness ==
  /\ pc = "return"
  /\ Len(input.secs) = 2
  /\ Anomalous(input.secs[1])
  /\ ~Anomalous(input.secs[2])
  /\ Len(parts) = 1

\* The loop is at its test with a delimiter found.
AtDelimiter == pc = "scan" /\ end # -1

\* C30: parseMultipartBody returns for every body: at every iteration end
\* is the place of a delimiter, start moves beyond it, and the next
\* delimiter found lies at or after the new start, so that no delimiter
\* is met twice.
C30_ScanTerminates ==
  /\ [](AtDelimiter => IsAt(body, end, boundaryBuffer(boundary)))
  /\ [][AtDelimiter => /\ start' > start
                        /\ start' > end
                        /\ AtDelimiter' => end' >= start']_vars
  /\ <>(pc = "return")

\* A body in which delimiters lie one upon the other has been scanned to
\* the end in two iterations or more.
C30_Witness ==
  /\ pc = "return"
  /\ boundary = Hyphen
  /\ IsAt(body, 0, boundaryBuffer(Hyphen))
  /\ IsAt(body, 1, boundaryBuffer(Hyphen))
  /\ start >= 6

(***************************************************************************)
(* SpecNormalize: the loop of parseMultipartData over the parts and then   *)
(* validateMetadata on the metadata it built, one loop iteration a step,   *)
(* on every list of parts of NormalizeInputs.                              *)
(***************************************************************************)

\* The most parts of a list drawn from PartMenu.
MaxMetaParts == 3

\* The most fields of a request of ManyFields.
MaxFields == 52

Part(name, filename, contentType, data) ==
  [name |-> name, filename |-> filename, contentType |-> contentType, data |-> data]

Field(name, data) == Part(name, Undefined, Undefined, data)

\* Two names with the same sanitized key, and an array index.
FieldNames == {<<"A", " ", "b">>, <<"a", "_", "b">>, <<"7">>}

PartMenu ==
  {Field(n, d) : n \in FieldNames, d \in {<<"1">>, <<"x">>}}
    \cup {Field(<<"a", "_", "b">>, <<" ">>),
          Part(LitFile, Some(<<"f">>), Some(<<"t">>), <<"x">>)}

\* Payloads of every kind the loop tells apart.
PayloadMenu ==
  {<<"4", "2">>, <<" ", "4", ".", "5", "0", "\r", "\n">>, <<"0", "7">>,
   <<"1", ".">>, <<".", "5">>, <<"-", "1">>, <<"1", "e", "3">>, <<"4", " ", "2">>,
   <<"T", "r", "u", "e">>, <<"f", "a", "l", "s", "e", " ">>, <<"t", "r", "u", "e", "x">>,
   <<"h", "i">>, <<" ", "h", " ", "i", " ">>, <<>>, <<" ", "\n">>}

LetterMenu == <<"a", "b", "c", "d", "e", "f", "g", "h">>

\* The j-th of the pairwise distinct field names of ManyFields.
FieldName(j) == <<"k", LetterMenu[(j \div 8) + 1], LetterMenu[(j % 8) + 1]>>

\* n fields with pairwise distinct names and valid values.
ManyFields(n) == [j \in 1..n |-> Field(FieldName(j), <<"1">>)]

\* n fields with pairwise distinct names, the last of which has the
\* sanitized key of the first.
CollidingFields(n) ==
  Append(ManyFields(n - 1), Field([FieldName(1) EXCEPT ![1] = "K"], <<"1">>))

NormalizeInputs ==
  SeqsUpTo(PartMenu, MaxMetaParts)
    \cup {<<Field(n, d)>> : n \in FieldNames, d \in PayloadMenu}
    \cup {ManyFields(n) : n \in 4..MaxFields}
    \cup {CollidingFields(n) : n \in MaxMetadataFields..MaxFields}

InitNormalize ==
  \E ps \in NormalizeInputs :
    /\ parts = ps
    /\ pc = "parts"
    /\ input = [secs |-> <<>>, termAt |-> 0]
    /\ body = <<>>
    /\ boundary = <<>>
    /\ start = 0
    /\ end = -1
    /\ NormalizeEntry
    /\ HandlerEntry(NoEvent)
    /\ ProcessorIdle

\* The locals after an iteration of the loop over the parts.
PartAssign(st) ==
  /\ fileData' = st.fileData
  /\ metadata' = st.metadata
  /\ partsDone' = partsDone + 1

\* One iteration of the loop over the parts (upload.ts:176-201).
PartIterate ==
  /\ pc = "parts"
  /\ partsDone < Len(parts)
  /\ PartAssign(PartStep([fileData |-> fileData, metadata |-> metadata],
                         parts[partsDone + 1]))
  /\ UNCHANGED <<pc, input, scanVars, parts, entriesDone, errors, cleanedMetadata, handlerVars, procVars>>

\* The parts are exhausted: { fileData, metadata } is returned and
\* validateMetadata(metadata) is entered (upload.ts:203, 309-310).
PartsReturn ==
  /\ pc = "parts"
  /\ partsDone = Len(parts)
  /\ pc' = "entries"
  /\ UNCHANGED <<input, scanVars, parts, normVars, handlerVars, procVars>>

\* The locals after an iteration of the loop over the entries.
EntryAssign(st) ==
  /\ errors' = st.errors
  /\ cleanedMetadata' = st.cleanedMetadata

\* One iteration of the loop over the entries (upload.ts:322-351).
EntryIterate ==
  /\ pc = "entries"
  /\ entriesDone < Len(metadata)
  /\ EntryAssign(EntryStep([errors |-> errors, cleanedMetadata |-> cleanedMetadata],
                           metadata[entriesDone + 1]))
  /\ entriesDone' = entriesDone + 1
  /\ UNCHANGED <<pc, input, scanVars, parts, partsDone, fileData, metadata, handlerVars, procVars>>

\* The entries are exhausted: the count is checked and the result returned
\* (upload.ts:353-362).
ValidateReturn ==
  /\ pc = "entries"
  /\ entriesDone = Len(metadata)
  /\ EntryAssign(CountStep([errors |-> errors, cleanedMetadata |-> cleanedMetadata],
                           metadata))
  /\ pc' = "validated"
  /\ UNCHANGED <<input, scanVars, parts, partsDone, fileData, metadata, entriesDone, handlerVars, procVars>>

NextNormalize == PartIterate \/ PartsReturn \/ EntryIterate \/ ValidateReturn

SpecNormalize == InitNormalize /\ [][NextNormalize]_vars

(***************************************************************************)
(* Claims on the normalizer.                                               *)
(***************************************************************************)

\* Whether v is a run of digits, optionally followed by a point and
\* another run of digits.
IsDecimalText(v) ==
  /\ v # <<>>
  /\ \A j \in 1..Len(v) : v[j] \in Digits \cup {"."}
  /\ Cardinality({j \in 1..Len(v) : v[j] = "."}) <= 1
  /\ v[1] # "."
  /\ v[Len(v)] # "."

WithoutPoint(v) == SelectSeq(v, LAMBDA c : c # ".")

\* The digits of v after its point.
FractionLen(v) == IF \E j \in 1..Len(v) : v[j] = "." THEN Len(v) - Min({j \in 1..Len(v) : v[j] = "."}) ELSE 0

RECURSIVE PowerOfTen(_)
PowerOfTen(k) == IF k = 0 THEN 1 ELSE 10 * PowerOfTen(k - 1)

\* Whether n = m / 10^e is the number the decimal text v denotes.
Denotes(n, v) ==
  /\ n.m * PowerOfTen(FractionLen(v)) = DigitsValue(WithoutPoint(v)) * PowerOfTen(n.e)
  /\ (n.e = 0 \/ n.m % 10 # 0)

\* Whether val is the value the trimmed payload v stands for.
TypedAs(val, v) ==
  IF IsDecimalText(v) THEN val.type = "number" /\ Denotes(val.num, v)
  ELSE IF toLowerCase(v) = LitTrue THEN val.type = "boolean" /\ val.bool
  ELSE IF toLowerCase(v) = LitFalse THEN val.type = "boolean" /\ ~val.bool
  ELSE val.type = "string" /\ val.str = v

\* Whether the metadata entry j is the only one with its sanitized key.
Alone(j) ==
  \A h \in 1..Len(metadata) :
    SanitizeKey(metadata[h].key) = SanitizeKey(metadata[j].key) => h = j

Reported(e) == \E j \in 1..Len(errors) : errors[j] = e

\* The part the loop has handled last is a metadata part.
LastIsField ==
  /\ partsDone >= 1
  /\ parts[partsDone].name # LitFile
  /\ parts[partsDone].name # <<>>

\* Whether entry e of metadata went into cleanedMetadata as the claim says.
Retained(e, alone) ==
  IF e.value.type = "string" /\ e.value.str = <<>>
    THEN /\ Reported(EmptyValueError(e.key))
         /\ (alone => ~HasKey(cleanedMetadata, SanitizeKey(e.key)))
    ELSE alone => /\ HasKey(cleanedMetadata, SanitizeKey(e.key))
                  /\ ObjGet(cleanedMetadata, SanitizeKey(e.key)) = e.value

AllValidFields ==
  \A i \in 1..Len(parts) :
    /\ parts[i].name # LitFile
    /\ trim(parts[i].name) # <<>>
    /\ trim(parts[i].data) # <<>>

\* The last of the parts whose name sanitizes to k.
LastWithKey(k) == Max({i \in 1..Len(parts) : SanitizeKey(parts[i].name) = k})

\* C5: when several parts sanitize to the same key, the returned mapping
\* has exactly one entry for the key, and its value is that of the part
\* that comes last in the input among them.
C5_LastPartWins ==
  (pc = "validated" /\ AllValidFields) =>
    \A i \in 1..Len(parts) :
      /\ Cardinality({j \in 1..Len(cleanedMetadata) :
                        cleanedMetadata[j].key = SanitizeKey(parts[i].name)}) = 1
      /\ TypedAs(ObjGet(cleanedMetadata, SanitizeKey(parts[i].name)),
                 trim(parts[LastWithKey(SanitizeKey(parts[i].name))].data))

\* The names of the parts are pairwise distinct.
DistinctNames ==
  \A i, j \in 1..Len(parts) : parts[i].name = parts[j].name => i = j

TooManyFieldsErrors ==
  Cardinality({j \in 1..Len(errors) : errors[j] = TooManyFieldsError})

\* C25 as stated: the error of too many fields is reported when, and only
\* when, the resulting mapping has more than 50 keys, and at most once.
C25_CapOnResultingKeys ==
  pc = "validated" =>
    TooManyFieldsErrors = (IF Len(cleanedMetadata) > 50 THEN 1 ELSE 0)

\* C25 amended: the error of too many fields is reported when, and only
\* when, the request has more than 50 distinct raw field names, and at most
\* once, whatever the number of keys of the resulting mapping.
C25_CapOnRawNames ==
  pc = "validated" =>
    TooManyFieldsErrors = (IF Len(metadata) > 50 THEN 1 ELSE 0)

\* 51 raw names that sanitize to 50 keys have been validated: the error is
\* reported.
C25_Witness ==
  /\ pc = "validated"
  /\ Len(metadata) = 51
  /\ Len(cleanedMetadata) = 50
  /\ TooManyFieldsErrors = 1

(***************************************************************************)
(* SpecUpload: the upload handler on every event of UploadInputs, a step   *)
(* for each of its checks and each of its two awaited writes, either of    *)
(* which may fail.                                                         *)
(***************************************************************************)

\* The most sections of a request body drawn from UploadMenu.
MaxUploadParts == 3

FileSection(filename, contentType, data) ==
  Section("quoted", LitFile, filename, contentType, data)

FieldSection(name, data) == Section("quoted", name, Undefined, Undefined, data)

\* Files below, at and above the greatest size, and fields with a valid and
\* a blank payload.
UploadMenu ==
  {FileSection(Some(<<"f">>), Some(<<"t">>), <<"x">>),
   FileSection(Undefined, Undefined, <<"y">>),
   FileSection(Some(<<"f">>), Some(<<"t">>), <<Blob, "x">>),
   FileSection(Some(<<"f">>), Some(<<"t">>), <<Blob, "x", "x">>),
   FieldSection(<<"a">>, <<"1">>),
   FieldSection(<<"b">>, <<"x">>),
   FieldSection(<<"A", " ", "b">>, <<" ", "x", " ">>),
   FieldSection(<<"a">>, <<" ">>)}

CtGood == LitMultipart \o <<";", " ">> \o LitBoundaryEq \o Boundary

CtOther == <<"t","e","x","t","/","p","l","a","i","n">>

Headers(lower, canon) == [lower |-> lower, canon |-> canon]

GoodHeaders == Headers(Some(CtGood), Undefined)

\* Headers other than GoodHeaders: the other key, a parameter after the
\* boundary, and the ways of having no usable Content-Type.
HeaderMenu ==
  {Headers(Undefined, Some(CtGood)),
   Headers(Some(CtGood \o <<";", " ", "q">>), Undefined),
   Headers(Undefined, Undefined),
   Headers(Some(<<>>), Undefined),
   Headers(Some(CtOther), Undefined),
   Headers(Undefined, Some(CtOther)),
   Headers(Some(LitMultipart), Undefined),
   Headers(Some(LitMultipart \o <<";", " ">> \o LitBoundaryEq), Undefined),
   Headers(Some(LitBoundaryEq \o Boundary), Undefined)}

Closed(secs) == [secs |-> secs, termAt |-> Len(secs)]

Request(in, headers) ==
  [in |-> in, ev |-> [headers |-> headers, body |-> Some(EncodeBody(in, Boundary))]]

\* A file and n fields with pairwise distinct names and valid values.
ManyFieldSections(n) ==
  <<FileSection(Some(<<"f">>), Some(<<"t">>), <<"x">>)>>
    \o [j \in 1..n |-> FieldSection(FieldName(j), <<"1">>)]

UploadInputs ==
  {Request(Closed(secs), GoodHeaders) : secs \in SeqsUpTo(UploadMenu, MaxUploadParts)}
    \cup {Request(Closed(ManyFieldSections(n)), GoodHeaders) :
            n \in {MaxMetadataFields, MaxMetadataFields + 1}}
    \cup {Request(Closed(secs), h) : secs \in SeqsUpTo(UploadMenu, 1), h \in HeaderMenu}
    \cup {[in |-> Closed(<<>>), ev |-> [headers |-> GoodHeaders, body |-> Undefined]]}

\* The file ids uuidv4 may give.
FileIds == {<<"1">>, <<"2">>}

InitUpload ==
  \E r \in UploadInputs :
    /\ input = r.in
    /\ HandlerEntry(r.ev)
    /\ pc = "handler"
    /\ parts = <<>>
    /\ body = <<>>
    /\ boundary = <<>>
    /\ start = 0
    /\ end = -1
    /\ NormalizeEntry
    /\ ProcessorIdle

\* return resp: the handler is done.
Return(resp) ==
  /\ response' = resp
  /\ pc' = "done"

\* const { fileData, metadata } = st, of the parts ps.
Destructure(ps, st) ==
  /\ parts' = ps
  /\ partsDone' = Len(ps)
  /\ fileData' = st.fileData
  /\ metadata' = st.metadata
  /\ pc' = "parsed"

\* parseMultipartData ended with outcome out (upload.ts:48, 99-102).
Parsed(out) ==
  IF out.threw
    THEN /\ Return(createInternalError(out.message))
         /\ UNCHANGED <<parts, partsDone, fileData, metadata>>
    ELSE /\ Destructure(out.parts, PartitionParts(out.parts))
         /\ UNCHANGED response

\* await parseMultipartData(event) (upload.ts:48).
HandlerParse ==
  /\ pc = "handler"
  /\ \E out \in {DecodeEvent(event)} : Parsed(out)
  /\ UNCHANGED <<input, scanVars, entriesDone, errors, cleanedMetadata,
                 event, fileId, s3Key, bucket, table, procVars>>

\* if (!fileData) return 400 (upload.ts:50-53).
HandlerCheckFile ==
  /\ pc = "parsed"
  /\ IF FileMissing(fileData)
       THEN Return(createErrorResponse(400, FILE_NOT_PROVIDED, <<>>))
       ELSE pc' = "validate" /\ UNCHANGED response
  /\ UNCHANGED <<input, scanVars, parts, normVars, event, fileId, s3Key, bucket, table, procVars>>

\* metadataValidation is v (upload.ts:56-60).
Validated(v) ==
  /\ errors' = v.errors
  /\ cleanedMetadata' = v.cleanedMetadata
  /\ entriesDone' = Len(metadata)
  /\ IF v.errors # <<>>
       THEN Return(createValidationError(v.errors))
       ELSE pc' = "size" /\ UNCHANGED response

\* validateMetadata(metadata) and the test of isValid (upload.ts:56-60).
HandlerValidate ==
  /\ pc = "validate"
  /\ \E v \in {validateMetadata(metadata)} : Validated(v)
  /\ UNCHANGED <<input, scanVars, parts, partsDone, fileData, metadata,
                 event, fileId, s3Key, bucket, table, procVars>>

\* A handler that writes the object before it checks the size.
HandlerCheckSizeAfterWrite ==
  /\ pc = "size"
  /\ \E id \in FileIds :
       /\ fileId' = id
       /\ s3Key' = S3KeyOf(id, fileData)
       /\ bucket' = PutObject(bucket, S3Object(fileData, S3KeyOf(id, fileData), id))
       /\ IF FileTooLarge(fileData)
            THEN Return(createFileSizeError(ByteLength(fileData.content)))
            ELSE pc' = "dynamo" /\ UNCHANGED response
  /\ UNCHANGED <<input, scanVars, parts, normVars, event, table, procVars>>

\* The size check, and then the file id and the key (upload.ts:63-73).
HandlerCheckSize ==
  /\ pc = "size"
  /\ IF FileTooLarge(fileData)
       THEN /\ Return(createFileSizeError(ByteLength(fileData.content)))
            /\ UNCHANGED <<fileId, s3Key>>
       ELSE \E id \in FileIds :
              /\ fileId' = id
              /\ s3Key' = S3KeyOf(id, fileData)
              /\ pc' = "s3"
              /\ UNCHANGED response
  /\ UNCHANGED <<input, scanVars, parts, normVars, event, bucket, table, procVars>>

\* await uploadFileToS3(...) succeeds (upload.ts:83, 108-122); the bucket
\* queues the event of the object created for the processor.
UploadFileToS3 ==
  /\ pc = "s3"
  /\ bucket' = PutObject(bucket, S3Object(fileData, s3Key, fileId))
  /\ notifications' = ObjectCreated(notifications, S3Object(fileData, s3Key, fileId))
  /\ pc' = "dynamo"
  /\ UNCHANGED <<input, scanVars, parts, normVars, event, fileId, s3Key, response, table,
                 ppc, records, recordsDone, objectKey, objectSize, s3Object,
                 extractedMetadata, procLog>>

\* s3Client.send rejects: the catch answers (upload.ts:99-102).
UploadFileToS3Fails ==
  /\ pc = "s3"
  /\ Return(createInternalError("PutObject failed"))
  /\ UNCHANGED <<input, scanVars, parts, normVars, event, fileId, s3Key, bucket, table, procVars>>

\* await storeMetadataInDynamoDB(...) succeeds (upload.ts:86, 127-148).
StoreMetadataInDynamoDB ==
  /\ pc = "dynamo"
  /\ table' = PutItem(table, DbItem(fileId, fileData, s3Key, cleanedMetadata))
  /\ pc' = "stored"
  /\ UNCHANGED <<input, scanVars, parts, normVars, event, fileId, s3Key, response, bucket, procVars>>

\* docClient.send rejects: the catch answers (upload.ts:99-102).
StoreMetadataInDynamoDBFails ==
  /\ pc = "dynamo"
  /\ Return(createInternalError("Put failed"))
  /\ UNCHANGED <<input, scanVars, parts, normVars, event, fileId, s3Key, bucket, table, procVars>>

\* return createSuccessResponse(...) (upload.ts:90-97).
HandlerSucceed ==
  /\ pc = "stored"
  /\ Return(createSuccessResponse(UploadResponse(fileId, s3Key, fileData, cleanedMetadata)))
  /\ UNCHANGED <<input, scanVars, parts, normVars, event, fileId, s3Key, bucket, table, procVars>>

NextUpload ==
  \/ HandlerParse
  \/ HandlerCheckFile
  \/ HandlerValidate
  \/ HandlerCheckSize
  \/ UploadFileToS3
  \/ UploadFileToS3Fails
  \/ StoreMetadataInDynamoDB
  \/ StoreMetadataInDynamoDBFails
  \/ HandlerSucceed

SpecUpload == InitUpload /\ [][NextUpload]_vars

(***************************************************************************)
(* Claims on the upload handler.                                           *)
(***************************************************************************)

\* The handler has returned.
Answered == pc = "done"

\* The header value names multipart/form-data and a boundary.
UsableContentType(ct) == Includes(ct, LitMultipart) /\ BoundaryHits(ct) # {}

\* The request was decoded into parts: parseMultipartData threw nothing.
Decoded == UsableContentType(ContentTypeHeader(event.headers)) /\ event.body.def

FileParts == {i \in 1..Len(parts) : parts[i].name = LitFile}

\* The error list of the metadata of the request.
ValidationErrors == validateMetadata(metadata).errors

\* C7: when the decoded parts hold no part named file, the handler answers
\* 400, no file provided, whatever metadata fields the request carries.
C7_NoFilePart ==
  (Answered /\ Decoded /\ FileParts = {}) =>
    /\ response.statusCode = 400
    /\ response.error = FILE_NOT_PROVIDED

\* C7 witness: a request of fields only, one of them invalid, answered 400
\* for the missing file.
C7_Witness ==
  /\ Answered /\ Decoded /\ FileParts = {}
  /\ Len(parts) >= 2
  /\ ValidationErrors # <<>>
  /\ response = createErrorResponse(400, FILE_NOT_PROVIDED, <<>>)

\* C8: for a request with a file part, a validation that reports an error
\* is answered 400 with exactly the error list as details, and a validation
\* that reports none is never answered as invalid metadata.
C8_ValidationErrors ==
  (Answered /\ Decoded /\ FileParts # {}) =>
    IF ValidationErrors # <<>>
      THEN response.statusCode = 400 /\ response.details = ValidationErrors
      ELSE response.statusCode # 400 /\ response.error # INVALID_METADATA

C8_Witness ==
  /\ Answered /\ Decoded /\ FileParts # {}
  /\ ValidationErrors = <<EmptyValueError(<<"a">>)>>
  /\ response.statusCode = 400
  /\ response.details = <<EmptyValueError(<<"a">>)>>

\* The Content-Type header is missing, does not declare multipart/form-data
\* or has no boundary parameter.
UnusableContentType(ct) ==
  \/ ct = <<>>
  \/ ~Includes(ct, LitMultipart)
  \/ \A i \in 0..(Len(ct) - 1) :
       IsAt(ct, i, LitBoundaryEq) =>
         (i + Len(LitBoundaryEq) = Len(ct) \/ IsAt(ct, i + Len(LitBoundaryEq), <<";">>))

\* C9: a request whose Content-Type header is missing, does not declare
\* multipart/form-data or has no boundary parameter is answered 400.
C9_MalformedIs400 ==
  (Answered /\ UnusableContentType(ContentTypeHeader(event.headers)))
    => response.statusCode = 400

\* C10 as stated: every request with a file part of more than 10,485,760
\* bytes is answered 413, and one with a file part of exactly 10,485,760
\* bytes is not answered 413.
C10_AnyLargeFilePart ==
  (Answered /\ Decoded) =>
    /\ (\E i \in FileParts : ByteLength(parts[i].data) > 10485760)
         => response.statusCode = 413
    /\ (\E i \in FileParts : ByteLength(parts[i].data) = 10485760)
         => response.statusCode # 413

\* C10 amended: what counts is the last part named file, and the metadata
\* is validated first: a request whose last file part has more than
\* 10,485,760 bytes and whose metadata has no validation error is answered
\* 413, and one whose last file part has exactly 10,485,760 bytes is not
\* answered 413.
C10_LargeFile ==
  (Answered /\ Decoded /\ FileParts # {}) =>
    /\ (ByteLength(parts[Max(FileParts)].data) > 10485760 /\ ValidationErrors = <<>>)
         => response.statusCode = 413
    /\ ByteLength(parts[Max(FileParts)].data) = 10485760
         => response.statusCode # 413

\* C10 witness: a request with fields and a last file part of 10,485,761
\* bytes, answered 413 with nothing stored.
C10_Witness ==
  /\ Answered /\ Decoded /\ FileParts # {}
  /\ ByteLength(parts[Max(FileParts)].data) = 10485761
  /\ Len(metadata) >= 1
  /\ response.statusCode = 413
  /\ bucket = {}
  /\ table = {}


(***************************************************************************)
(* The processor handler, one step per await and per turn of its loop.     *)
(***************************************************************************)

uploadVars == <<pc, input, scanVars, parts, normVars, event, fileId, s3Key, response>>

\* No request is being handled; the stores hold objects and items.
UploadIdle(objects, items) ==
  /\ pc = "idle"
  /\ input = <<>>
  /\ body = <<>>
  /\ boundary = <<>>
  /\ start = 0
  /\ end = -1
  /\ parts = <<>>
  /\ NormalizeEntry
  /\ event = NoEvent
  /\ fileId = <<>>
  /\ s3Key = <<>>
  /\ response = NoResponse
  /\ bucket = objects
  /\ table = items

\* The locals of the next turn of the loop.
NextRecord ==
  /\ recordsDone' = recordsDone + 1
  /\ ppc' = "loop"
  /\ objectKey' = <<>>
  /\ objectSize' = 0
  /\ s3Object' = NoObject
  /\ extractedMetadata' = NoMetadata

\* A failure that leaves the loop: the outer catch logs it and throws it
\* again, and the invocation fails.
Abort(outcome) ==
  /\ procLog' = Append(procLog, outcome)
  /\ ppc' = "threw"
  /\ UNCHANGED <<recordsDone, objectKey, objectSize, s3Object, extractedMetadata>>

\* A turn without a catch of its own: its failure leaves the loop.
TurnWithoutCatch(outcome) == Abort(outcome)

\* catch (fileError) { ...; continue; }, and the end of a turn that did
\* not fail: the outcome of the record is logged and the loop goes on.
Continue(outcome) ==
  /\ procLog' = Append(procLog, outcome)
  /\ NextRecord

\* The event source invokes the handler with a pending event.
Invoke ==
  /\ ppc = "idle"
  /\ \E e \in notifications :
       /\ records' = e
       /\ notifications' = notifications \ {e}
  /\ ppc' = "loop"
  /\ UNCHANGED <<uploadVars, bucket, table, recordsDone, objectKey, objectSize,
                 s3Object, extractedMetadata, procLog>>

\* The head of a turn, d being the decoded key of record: a key that does
\* not decode throws out of the loop, a key of another shape is skipped.
StartRecord(d, record) ==
  IF ~d.ok THEN Abort("URIError")
  ELSE IF NotExpectedFormat(KeyParts(d.val)) THEN Continue("skipped")
  ELSE /\ objectKey' = d.val
       /\ objectSize' = record.size
       /\ ppc' = "get"
       /\ UNCHANGED <<recordsDone, s3Object, extractedMetadata, procLog>>

\* for (const record of event.Records), to the const fileName.
ProcRecord ==
  /\ ppc = "loop"
  /\ recordsDone < Len(records)
  /\ \E d \in {decodeURIComponent(PlusToSpace(records[recordsDone + 1].key))} :
       StartRecord(d, records[recordsDone + 1])
  /\ UNCHANGED <<uploadVars, bucket, table, notifications, records>>

\* await s3Client.send(new GetObjectCommand(...)) resolves.
ProcGetObject ==
  /\ ppc = "get"
  /\ \E o \in ObjectsAt(bucket, objectKey) : s3Object' = GetObjectOutput(o)
  /\ ppc' = "extract"
  /\ UNCHANGED <<uploadVars, bucket, table, notifications, records, recordsDone,
                 objectKey, objectSize, extractedMetadata, procLog>>

\* s3Client.send rejects, for want of the object or otherwise.
ProcGetObjectFails ==
  /\ ppc = "get"
  /\ Continue("getFailed")
  /\ UNCHANGED <<uploadVars, bucket, table, notifications, records>>

\* const extractedMetadata = await extractFileMetadata(...).
ProcExtract ==
  /\ ppc = "extract"
  /\ \E fileName \in {FileNameOf(objectKey)} :
       extractedMetadata' = extractFileMetadata(s3Object, fileName, objectSize)
  /\ ppc' = "update"
  /\ UNCHANGED <<uploadVars, bucket, table, notifications, records, recordsDone,
                 objectKey, objectSize, s3Object, procLog>>

\* await updateDynamoDBWithMetadata(fileId, extractedMetadata) resolves:
\* the update was made, or its condition failed and the function returned.
ProcUpdate ==
  /\ ppc = "update"
  /\ \E id \in {FileIdOf(objectKey)} :
       /\ table' = UpdateItem(table, id, extractedMetadata)
       /\ Continue(IF RecordExists(table, id) THEN "processed" ELSE "missing")
  /\ UNCHANGED <<uploadVars, bucket, notifications, records>>

\* docClient.send rejects with another error: updateDynamoDBWithMetadata
\* throws it again into the catch of the turn.
ProcUpdateFails ==
  /\ ppc = "update"
  /\ Continue("updateFailed")
  /\ UNCHANGED <<uploadVars, bucket, table, notifications, records>>

\* return { statusCode: 200, ... } after the loop.
ProcReturn ==
  /\ ppc = "loop"
  /\ recordsDone = Len(records)
  /\ ppc' = "returned"
  /\ UNCHANGED <<uploadVars, bucket, table, notifications, records, recordsDone,
                 objectKey, objectSize, s3Object, extractedMetadata, procLog>>

(***************************************************************************)
(* SpecClassify: extractFileMetadata on one object.                        *)
(***************************************************************************)

ContentTypes ==
  {Undefined, Some(<<>>)} \cup
  {Some(c) : c \in {<<"i","m","a","g","e","/","p","n","g">>, <<"i","m","a","g","e","/","j","p","e","g">>, <<"i","m","a","g","e","/","b","m","p">>, <<"a","p","p","l","i","c","a","t","i","o","n","/","p","d","f">>,
                    <<"t","e","x","t","/","p","l","a","i","n">>, <<"v","i","d","e","o","/","m","p","4">>, <<"v","i","d","e","o","/","x","-","m","s","v","i","d","e","o">>, <<"a","u","d","i","o","/","m","p","e","g">>,
                    <<"a","u","d","i","o","/","x","-","a","i","f","f">>, <<"a","p","p","l","i","c","a","t","i","o","n","/","z","i","p">>,
                    <<"a","p","p","l","i","c","a","t","i","o","n","/","o","c","t","e","t","-","s","t","r","e","a","m">>}}

FileNames ==
  {<<"r","e","p","o","r","t",".","p","d","f">>, <<"A",".","P","D","F">>, <<"p","d","f">>, <<"z","i","p">>, <<"n","o","t","e","s",".","t","x","t">>, <<"c","l","i","p",".","m","p","4">>, <<"c","l","i","p",".","a","v","i">>,
   <<"s","o","n","g",".","m","p","3">>, <<"s","o","n","g",".","f","l","a","c">>, <<"m","e","m","o",".","d","o","c","x">>, <<"s","h","e","e","t",".","x","l","s">>, <<"b","a","c","k","u","p",".","t","a","r",".","g","z">>,
   <<"d","a","t","a",".","b","i","n">>, <<"t","r","a","i","l","i","n","g",".">>, <<"R","E","A","D","M","E">>, <<"d","i","r","/","m","y",".","f","i","l","e">>}

FileSizes ==
  {0, 1, 50, 51, 50000, 50001, 150000, 1048575, 1048576, 10485759, 10485760,
   10485761, 104857599, 104857600}

InitClassify ==
  \E c \in ContentTypes, n \in FileNames, z \in FileSizes :
    /\ UploadIdle({}, {})
    /\ notifications = {}
    /\ records = <<>>
    /\ recordsDone = 0
    /\ procLog = <<>>
    /\ ppc = "extract"
    /\ objectKey = UPLOAD_PREFIX \o <<"1", "/">> \o n
    /\ objectSize = z
    /\ s3Object = [ContentType |-> c]
    /\ extractedMetadata = NoMetadata

NextClassify == ProcExtract

SpecClassify == InitClassify /\ [][NextClassify]_vars

\* The classifier has returned.
Classified == ppc = "update"

\* C11: for every byte size, the size category of the classifier is small
\* iff the size is below 1,048,576, medium iff it is from 1,048,576 up to
\* but not 10,485,760, and large otherwise; no other value is produced.
C11_SizeBuckets ==
  Classified =>
    /\ extractedMetadata.size_category \in {"small", "medium", "large"}
    /\ extractedMetadata.size_category = "small" <=> objectSize < 1048576
    /\ extractedMetadata.size_category = "medium" <=>
         (1048576 <= objectSize /\ objectSize < 10485760)
    /\ extractedMetadata.size_category = "large" <=> objectSize >= 10485760

\* A file of 100 MiB has been classified as large.
C11_Witness ==
  /\ Classified
  /\ objectSize >= 104857600
  /\ extractedMetadata.size_category = "large"

\* The row of the decision table that matches first, for a content type and
\* an extension.
FirstMatchingRow(contentType, fileExtension) ==
  IF startsWith(contentType, LitImage) THEN [type |-> "image", category |-> "media"]
  ELSE IF contentType = LitApplicationPdf \/ fileExtension = LitPdf
    THEN [type |-> "pdf", category |-> "document"]
  ELSE IF startsWith(contentType, LitText) \/ fileExtension \in TextExtensions
    THEN [type |-> "text", category |-> "document"]
  ELSE IF startsWith(contentType, LitVideo) \/ fileExtension \in VideoExtensions
    THEN [type |-> "video", category |-> "media"]
  ELSE IF startsWith(contentType, LitAudio) \/ fileExtension \in AudioExtensions
    THEN [type |-> "audio", category |-> "media"]
  ELSE IF fileExtension \in OfficeExtensions
    THEN [type |-> "document", category |-> "document"]
  ELSE IF fileExtension \in ArchiveExtensions
    THEN [type |-> "archive", category |-> "compressed"]
  ELSE [type |-> "unknown", category |-> "other"]

\* C12: the file type and the category of the classifier are those of the
\* first matching row of the decision table, taken in the order image
\* content type, pdf, text, video, audio, office documents, archives,
\* unknown; the extension is the one the classifier reports.
C12_FirstMatchWins ==
  Classified =>
    /\ extractedMetadata.file_type =
         FirstMatchingRow(extractedMetadata.content_type,
                          extractedMetadata.file_extension).type
    /\ extractedMetadata.category =
         FirstMatchingRow(extractedMetadata.content_type,
                          extractedMetadata.file_extension).category

\* An image content type has won over a pdf extension.
C12_Witness ==
  /\ Classified
  /\ startsWith(extractedMetadata.content_type, LitImage)
  /\ extractedMetadata.file_extension = LitPdf
  /\ extractedMetadata.file_type = "image"

\* The lower-cased text after the last point of fileName, the offsets after
\* its points being given, and the empty text when there is no point.
TextAfterLastPoint(fileName, points) ==
  IF points = {} THEN <<>> ELSE toLowerCase(SliceFrom(fileName, Max(points)))

\* C13: the file extension of the classifier is the lower-cased text after
\* the last point of the file name, and is empty whenever the file name has
\* no point.
C13_ExtensionAfterLastPoint ==
  Classified =>
    extractedMetadata.file_extension =
      TextAfterLastPoint(FileNameOf(objectKey),
        {k \in 1..Len(FileNameOf(objectKey)) : FileNameOf(objectKey)[k] = "."})

\* C14: for every input the classifier returns, its output has a file type
\* among pdf, image, text, video, audio, document, archive and unknown and
\* a category among document, media, compressed, text and other, and an
\* absent content type is reported as the empty text.
C14_TypeAndCategory ==
  Classified =>
    /\ {"file_type", "category"} \subseteq DOMAIN extractedMetadata
    /\ extractedMetadata.file_type \in
         {"pdf", "image", "text", "video", "audio", "document", "archive", "unknown"}
    /\ extractedMetadata.category \in
         {"document", "media", "compressed", "text", "other"}
    /\ ~s3Object.ContentType.def => extractedMetadata.content_type = <<>>

\* An office file without a content type has been classified as a document.
C14_Witness ==
  /\ Classified
  /\ ~s3Object.ContentType.def
  /\ extractedMetadata.file_extension \in OfficeExtensions
  /\ extractedMetadata.file_type = "document"
  /\ extractedMetadata.category = "document"

\* Whether n is max(1, ceil(size / unit)): n units hold the size, one unit
\* less does not, and n is 1 at least.
IsEstimate(n, size, unit) ==
  /\ n >= 1
  /\ n * unit >= size
  /\ n > 1 => (n - 1) * unit < size

\* C26: estimated_pages is present exactly for a pdf, and is then
\* max(1, ceil(size / 50000)); estimated_lines is present exactly for a text
\* of size above 0, and is then max(1, ceil(size / 50)); format is absent
\* for a pdf, a text and an unknown file.
C26_OptionalFields ==
  Classified =>
    /\ "estimated_pages" \in DOMAIN extractedMetadata
         <=> extractedMetadata.file_type = "pdf"
    /\ "estimated_pages" \in DOMAIN extractedMetadata
         => IsEstimate(extractedMetadata.estimated_pages, objectSize, 50000)
    /\ "estimated_lines" \in DOMAIN extractedMetadata
         <=> (extractedMetadata.file_type = "text" /\ objectSize > 0)
    /\ "estimated_lines" \in DOMAIN extractedMetadata
         => IsEstimate(extractedMetadata.estimated_lines, objectSize, 50)
    /\ extractedMetadata.file_type \in {"pdf", "text", "unknown"}
         => "format" \notin DOMAIN extractedMetadata

\* An empty text file has been classified: it has no line estimate.
C26_Witness ==
  /\ Classified
  /\ objectSize = 0
  /\ extractedMetadata.file_type = "text"
  /\ "estimated_lines" \notin DOMAIN extractedMetadata

\* Scenario A: report.pdf of 150000 bytes and content type application/pdf
\* has been classified.
ScenarioA ==
  /\ Classified
  /\ s3Object.ContentType = Some(LitApplicationPdf)
  /\ FileNameOf(objectKey) = <<"r","e","p","o","r","t",".","p","d","f">>
  /\ objectSize = 150000

\* C15, as stated: scenario A yields file type pdf, category document, size
\* category medium and 3 estimated pages.
C15_ScenarioAMedium ==
  ScenarioA =>
    /\ extractedMetadata.file_type = "pdf"
    /\ extractedMetadata.category = "document"
    /\ extractedMetadata.size_category = "medium"
    /\ extractedMetadata.estimated_pages = 3

\* C15, amended: scenario A yields file type pdf, category document, size
\* category small and 3 estimated pages.
C15_ScenarioA ==
  ScenarioA =>
    /\ extractedMetadata.file_type = "pdf"
    /\ extractedMetadata.category = "document"
    /\ extractedMetadata.size_category = "small"
    /\ extractedMetadata.estimated_pages = 3

\* Scenario A has been classified, with its page estimate.
C15_Witness ==
  /\ ScenarioA
  /\ "estimated_pages" \in DOMAIN extractedMetadata

(***************************************************************************)
(* SpecProcess: one invocation of the processor on an event of records,    *)
(* with a bucket and a table that hold, or lack, what the records name.    *)
(***************************************************************************)

MaxRecords == 2

\* Two stored files, as the upload handler stores them.
StoredFiles ==
  {[id |-> <<"1">>,
    fd |-> [filename |-> <<"a"," ","b",".","p","d","f">>, contentType |-> LitApplicationPdf, content |-> <<"x">>]],
   [id |-> <<"2">>,
    fd |-> [filename |-> <<"n",".","t","x","t">>, contentType |-> <<"t","e","x","t","/","p","l","a","i","n">>, content |-> <<"x", "y">>]]}

StoredObject(f) == S3Object(f.fd, S3KeyOf(f.id, f.fd), f.id)

StoredItem(f) == DbItem(f.id, f.fd, S3KeyOf(f.id, f.fd), <<>>)

\* The records of the events: the two stored objects, two keys of another
\* shape, and a key that does not decode.
RecordMenu ==
  {EventRecord(StoredObject(f)) : f \in StoredFiles} \cup
  {[key |-> <<"u","p","l","o","a","d","s","/","x">>, size |-> 1], [key |-> <<"l","o","g","s","/","1","/","x">>, size |-> 1],
   [key |-> <<"u","p","l","o","a","d","s","/","1","/","%","z","z">>, size |-> 1]}

ProcessInputs ==
  {[ev |-> ev, files |-> fs, rows |-> rs] :
     ev \in SeqsUpTo(RecordMenu, MaxRecords) \ {<<>>},
     fs \in (SUBSET StoredFiles) \ {{}},
     rs \in SUBSET StoredFiles}

InitProcess ==
  \E r \in ProcessInputs :
    /\ UploadIdle({StoredObject(f) : f \in r.files}, {StoredItem(f) : f \in r.rows})
    /\ notifications = {r.ev}
    /\ ppc = "idle"
    /\ records = <<>>
    /\ recordsDone = 0
    /\ procLog = <<>>
    /\ RecordEntry

NextProcess ==
  \/ Invoke
  \/ ProcRecord
  \/ ProcGetObject
  \/ ProcGetObjectFails
  \/ ProcExtract
  \/ ProcUpdate
  \/ ProcUpdateFails
  \/ ProcReturn

SpecProcess == InitProcess /\ [][NextProcess]_vars

\* The update of the turn finds no record for the file id of the key.
RecordMissing == ppc = "update" /\ ~RecordExists(table, FileIdOf(objectKey))

\* C16: when the processor comes to update the record of an id for which
\* the table holds no record, the table is left as it is, the turn ends
\* without the handler raising, and no event is queued for another try.
C16_MissingRecord ==
  [][RecordMissing =>
       /\ table' = table
       /\ ppc' = "loop"
       /\ recordsDone' = recordsDone + 1
       /\ notifications' = notifications]_vars

\* The handler has returned after a turn that found no record, and the
\* table is still empty.
C16_Witness ==
  /\ ppc = "returned"
  /\ \E i \in 1..Len(procLog) : procLog[i] = "missing"
  /\ table = {}

\* The update of the turn is made on the record of the file id of the key.
Merged ==
  /\ ppc = "update"
  /\ RecordExists(table, FileIdOf(objectKey))
  /\ procLog' = Append(procLog, "processed")

\* The attributes a merge of the classified metadata extracted sets.
MergedAttributes(extracted) ==
  {"status", "processing_date"} \cup {"extracted_" \o f : f \in DOMAIN extracted}

\* Item y is item x after a merge of extracted: status, processing date and
\* one attribute for each field are set, and nothing else differs.
MergeOf(y, x, extracted) ==
  /\ DOMAIN y = DOMAIN x \cup MergedAttributes(extracted)
  /\ y.status = "processed"
  /\ y.processing_date = Timestamp
  /\ \A f \in DOMAIN extracted : y["extracted_" \o f] = extracted[f]
  /\ \A a \in DOMAIN x \ MergedAttributes(extracted) : y[a] = x[a]

\* C17: a merge for an id sets on the record of the id exactly status
\* 'processed', processing_date and one attribute extracted_<field> for
\* each field of the classified metadata; every other attribute of the
\* record and every other record of the table are unchanged.
C17_MergeFrame ==
  [][Merged =>
       /\ Cardinality(table') = Cardinality(table)
       /\ \A x \in table :
            IF x.file_id = FileIdOf(objectKey)
              THEN \E y \in table' :
                     y.file_id = x.file_id /\ MergeOf(y, x, extractedMetadata)
              ELSE x \in table']_vars

\* One record has been merged into, with the attribute of its file type,
\* beside a record that is still as uploaded.
C17_Witness ==
  \E x, y \in table :
    /\ x.status = "processed"
    /\ "extracted_file_type" \in DOMAIN x
    /\ x.upload_date = Timestamp
    /\ y.status = "uploaded"

\* The outcomes of a turn in which the object read or the update raised.
TurnFailures == {"getFailed", "updateFailed"}

\* C19: a failure of the object read or of the update in the turn of one
\* record does not keep the later records of the event from their turns:
\* the handler leaves the loop early for a key that does not decode only,
\* and when it returns every record of the event has had its turn.
C19_ErrorIsolation ==
  /\ ppc = "threw" => procLog[Len(procLog)] \notin TurnFailures
  /\ ppc = "returned" => Len(procLog) = Len(records)
  /\ ppc \in {"loop", "get", "extract", "update"} => Len(procLog) = recordsDone

\* A record has been processed after the turn of an earlier record of the
\* same event failed.
C19_Witness ==
  /\ ppc = "returned"
  /\ \E i, j \in 1..Len(procLog) :
       /\ i < j
       /\ procLog[i] \in TurnFailures
       /\ procLog[j] = "processed"

\* C20: if the update of a record fails with an error other than the
\* missing record, the invocation of the handler fails: a handler that
\* returns has had no such failure.
C20_UpdateFailureFails ==
  ppc = "returned" => \A i \in 1..Len(procLog) : procLog[i] # "updateFailed"

(***************************************************************************)
(* SpecPipeline: one upload request and the processor, which the event of  *)
(* the object created invokes, in every interleaving of their steps.  The  *)
(* calls of the processor do not fail here.                                *)
(***************************************************************************)

PipelineMenu ==
  {FileSection(Some(<<"a"," ","b",".","p","d","f">>), Some(LitApplicationPdf), <<"x">>),
   FileSection(Some(<<"n",".","t","x","t">>), Undefined, <<"y">>),
   FileSection(Undefined, Undefined, <<"z">>),
   FieldSection(<<"a">>, <<"1">>),
   FieldSection(<<"s","t","a","t","u","s">>, <<"x">>),
   FieldSection(<<"f","i","l","e","_","s","i","z","e">>, <<"7">>),
   FieldSection(<<"e","x","t","r","a","c","t","e","d","_","f","i","l","e","_","t","y","p","e">>, <<"x">>)}

PipelineInputs ==
  {Request(Closed(secs), GoodHeaders) : secs \in SeqsUpTo(PipelineMenu, MaxParts)}

InitPipeline ==
  \E r \in PipelineInputs :
    /\ input = r.in
    /\ HandlerEntry(r.ev)
    /\ pc = "handler"
    /\ parts = <<>>
    /\ body = <<>>
    /\ boundary = <<>>
    /\ start = 0
    /\ end = -1
    /\ NormalizeEntry
    /\ ProcessorIdle

ProcessorStep ==
  \/ Invoke
  \/ ProcRecord
  \/ ProcGetObject
  \/ ProcExtract
  \/ ProcUpdate
  \/ ProcReturn

\* The most turns of the processor in one run of the pipeline.
MaxDeliveries == 2

\* The event of a stored object is delivered once more after the
\* invocation for it has returned: the delivery of events is at least once.
Redeliver ==
  /\ ppc = "returned"
  /\ Len(procLog) < MaxDeliveries
  /\ \E o \in bucket : notifications' = ObjectCreated(notifications, o)
  /\ ppc' = "idle"
  /\ records' = <<>>
  /\ recordsDone' = 0
  /\ UNCHANGED <<uploadVars, bucket, table, objectKey, objectSize, s3Object,
                 extractedMetadata, procLog>>

NextPipeline ==
  \/ NextUpload
  \/ ProcessorStep
  \/ Redeliver

SpecPipeline == InitPipeline /\ [][NextPipeline]_vars

\* The steps of the upload handler from its first write on.
UploadWrites ==
  \/ UploadFileToS3
  \/ UploadFileToS3Fails
  \/ StoreMetadataInDynamoDB
  \/ StoreMetadataInDynamoDBFails
  \/ HandlerSucceed

\* An upload handler that has come to its writes runs on to its answer, a
\* pending event is delivered, and the processor runs on to its end.
SpecPipelineFair ==
  /\ SpecPipeline
  /\ WF_vars(UploadWrites)
  /\ WF_vars(ProcessorStep)

\* The upload handler has returned success.
UploadSucceeded == pc = "done" /\ response.statusCode = 200

\* The record of the upload carries the extracted metadata and the status
\* processed.
RecordProcessed ==
  \E x \in table :
    /\ x.file_id = fileId
    /\ x.status = "processed"
    /\ "extracted_file_type" \in DOMAIN x

\* C18: under fair delivery of the event of the object created, every
\* upload that the upload handler answered with success has, sooner or
\* later, its record updated with the extracted metadata and the status
\* processed, however the two writes of the upload handler and the run of
\* the processor interleave.
C18_EventuallyProcessed == [](UploadSucceeded => <>RecordProcessed)

\* The metadata the processor extracts for the file of the request.
ExtractedOfUpload ==
  extractFileMetadata([ContentType |-> Some(fileData.contentType)],
                      fileData.filename, ByteLength(fileData.content))

\* The attributes of the system on record x are as the upload handler
\* computed them.
SystemAttributes(x) ==
  /\ x.file_id = fileId
  /\ x.file_name = fileData.filename
  /\ x.content_type = fileData.contentType
  /\ x.s3_key = s3Key
  /\ x.upload_date = Timestamp
  /\ x.file_size = ByteLength(fileData.content)
  /\ x.status \in {"uploaded", "processed"}

\* The attributes extracted_<field> on record x are as the processor
\* computed them, and are there once the record is processed.
ExtractedAttributes(x) ==
  /\ x.status = "processed" =>
       \A f \in DOMAIN ExtractedOfUpload : ("extracted_" \o f) \in DOMAIN x
  /\ \A f \in DOMAIN ExtractedOfUpload :
       ("extracted_" \o f) \in DOMAIN x => x["extracted_" \o f] = ExtractedOfUpload[f]

\* C21: whatever keys the client metadata has, status, file_id, file_size
\* and extracted_file_type among them, the attributes of the system and the
\* attributes extracted_<field> of the stored record hold the values the
\* system computed, after the upload and after the processing; the client
\* values are in client_metadata.
C21_SystemAttributesKept ==
  \A x \in table :
    /\ SystemAttributes(x)
    /\ ExtractedAttributes(x)
    /\ x.client_metadata = cleanedMetadata

\* The client keys that are names of attributes of the system.
SystemKeys == {<<"s","t","a","t","u","s">>, <<"f","i","l","e","_","s","i","z","e">>, <<"e","x","t","r","a","c","t","e","d","_","f","i","l","e","_","t","y","p","e">>}

\* A record has been processed whose client metadata has a key that is the
\* name of an attribute of the system.
C21_Witness ==
  \E x \in table :
    /\ x.status = "processed"
    /\ \E k \in SystemKeys : HasKey(x.client_metadata, k)

\* A key of stored client metadata: not empty, and of the characters a to
\* z, 0 to 9 and _ only.
StorableKey(k) ==
  /\ k # <<>>
  /\ \A j \in 1..Len(k) : k[j] \in LowerLetters \cup Digits \cup {"_"}

\* A value of stored client metadata: a trimmed string that is not empty,
\* a finite number, or a boolean.
StorableValue(v) ==
  \/ v.type = "string" /\ v.str # <<>> /\ trim(v.str) = v.str
  \/ v.type = "number" /\ isFinite(v.num)
  \/ v.type = "boolean"

\* C22: every record of the metadata store has client metadata of at most
\* 50 keys, each key not empty and of the characters a-z, 0-9 and _ only,
\* and each value a trimmed string that is not empty, a finite number or a
\* boolean.
C22_StoredClientMetadata ==
  \A x \in table :
    /\ Len(x.client_metadata) <= 50
    /\ \A j \in 1..Len(x.client_metadata) :
         /\ StorableKey(x.client_metadata[j].key)
         /\ StorableValue(x.client_metadata[j].value)

\* A record with 50 keys of client metadata has been stored.
C22_Witness == \E x \in table : Len(x.client_metadata) = 50

\* The places of the parts named file.
FilePlaces == {i \in 1..Len(parts) : parts[i].name = LitFile}

\* The file that part p stands for: its payload, and its filename and
\* content type or, without them, the defaults.
FileOfPart(p) ==
  [content |-> p.data,
   filename |-> IF p.filename.def /\ p.filename.val # <<>>
                  THEN p.filename.val ELSE UnnamedFile,
   contentType |-> IF p.contentType.def /\ p.contentType.val # <<>>
                     THEN p.contentType.val ELSE OctetStream]

\* Whether what the handler stored is the file f.
StoredAs(f) ==
  /\ \A o \in bucket :
       /\ o.Body = f.content
       /\ o.ContentType = f.contentType
       /\ o.originalName = f.filename
       /\ o.Key = UPLOAD_PREFIX \o fileId \o <<"/">> \o f.filename
  /\ \A x \in table :
       /\ x.file_name = f.filename
       /\ x.content_type = f.contentType
       /\ x.file_size = ByteLength(f.content)

\* C24: of several parts named file the last one is the file: its payload,
\* filename and content type are what is stored, with unnamed_file and
\* application/octet-stream in the place of a filename or content type that
\* the part does not have.
C24_LastFilePartWins ==
  (pc # "handler" /\ FilePlaces # {}) =>
    /\ fileData.present
    /\ fileData.content = FileOfPart(parts[Max(FilePlaces)]).content
    /\ fileData.filename = FileOfPart(parts[Max(FilePlaces)]).filename
    /\ fileData.contentType = FileOfPart(parts[Max(FilePlaces)]).contentType
    /\ StoredAs(FileOfPart(parts[Max(FilePlaces)]))

\* A request of two parts named file, the first with a filename and a
\* content type, the last without, has been stored.
C24_Witness ==
  /\ Cardinality(FilePlaces) >= 2
  /\ parts[Min(FilePlaces)].filename.def
  /\ ~parts[Max(FilePlaces)].filename.def
  /\ ~parts[Max(FilePlaces)].contentType.def
  /\ bucket # {}
  /\ table # {}

\* The attributes that the upload handler writes.
UploadAttributes == DOMAIN DbItem(<<>>, NoFileData, <<>>, <<>>)

\* Whether record y is record x, processed, with every extracted attribute
\* that x has.
StillProcessed(x, y) ==
  /\ y.file_id = x.file_id
  /\ y.status = "processed"
  /\ \A a \in DOMAIN x \ (UploadAttributes \cup {"processing_date"}) :
       a \in DOMAIN y /\ y[a] = x[a]

\* C27: in every interleaving of the two writes of the upload handler with
\* the deliveries of the event of the object created, a record that has the
\* status processed keeps it, with its extracted attributes, in every later
\* step.
C27_StatusNeverRegresses ==
  [][\A x \in table :
       x.status = "processed" => \E y \in table' : StillProcessed(x, y)]_vars

\* The event has been delivered twice, the first time before the record
\* was written and the second time after it, and the record is processed.
C27_Witness ==
  /\ procLog = <<"missing", "processed">>
  /\ pc = "done"
  /\ RecordProcessed

\* Whether an object is stored under uploads/{id}/.
ObjectStoredFor(id) ==
  \E o \in bucket : startsWith(o.Key, UPLOAD_PREFIX \o id \o <<"/">>)

\* C28: when the upload handler has answered, with whatever response, an
\* object is stored under uploads/{id}/ exactly when the metadata store
\* holds a record for id; after an error response no object is left.
C28_ObjectIffRecord ==
  pc = "done" =>
    /\ \A id \in FileIds : ObjectStoredFor(id) <=> RecordExists(table, id)
    /\ response.statusCode # 200 => bucket = {}

\* C29: when the upload handler has answered 400 or 413, it has written
\* neither to the object store nor to the metadata store.
C29_RejectedWritesNothing ==
  (Answered /\ response.statusCode \in {400, 413}) =>
    /\ bucket = {}
    /\ table = {}
    /\ notifications = {}

\* A request whose metadata is valid and whose file is above the greatest
\* size has been answered 413.
C29_Witness ==
  /\ Answered
  /\ response.statusCode = 413
  /\ fileData.present
  /\ errors = <<>>
  /\ bucket = {}
  /\ table = {}

=============================================================================
